---------------------------- MODULE Spec2Model ----------------------------
(***************************************************************************)
(* A model of the BOM component resolution pipeline of the hw repository:  *)
(*   - resolve_part and _score_candidate (jlcpcb/bom_lookup/resolver.py),  *)
(*     run stage by stage over a bounded candidate list;                   *)
(*   - generate_plan and _search_item (shop/workflow.py), the asyncio      *)
(*     fan-out of one task per BOM line behind a semaphore.                *)
(*                                                                         *)
(* Text is a sequence of one-character strings, so that the prefix tests,  *)
(* substring tests and regular expressions of the code are computed on the *)
(* characters.  None and the empty string are both the empty sequence: the *)
(* modelled code reads optional text only through its truthiness           *)
(* (`x or ""`, `if not x`, `if x`).  An optional record or number is a     *)
(* sequence of length 0 (None) or 1.                                       *)
(***************************************************************************)
EXTENDS Integers, Sequences, FiniteSets, TLC

(***************************************************************************)
(* Bounds of the model.                                                    *)
(***************************************************************************)
\* Longest candidate list handed to resolve_part.
MaxCands == 2
\* Number of BOM lines of the plan.
NumLines == 3
\* Largest max_concurrent given to generate_plan.
MaxConc == 2
\* Largest max_vendors given to generate_plan.
MaxVendors == 2

\* The largest number of parts one search returns to a call of _search_item
\* on its own.
MaxResults == 3

(***************************************************************************)
(* Text helpers: Python str operations on sequences of characters.         *)
(***************************************************************************)
Digits == {"0","1","2","3","4","5","6","7","8","9"}

UpperChars == <<"A","B","C","D","E","F","G","H","I","J","K","L","M","N","O","P","Q","R","S","T","U","V","W","X","Y","Z">>

LowerChars == <<"a","b","c","d","e","f","g","h","i","j","k","l","m","n","o","p","q","r","s","t","u","v","w","x","y","z">>

IsDigit(c) == c \in Digits

IsUpper(c) == \E k \in 1..Len(UpperChars) : UpperChars[k] = c

IsLower(c) == \E k \in 1..Len(LowerChars) : LowerChars[k] = c

\* \w of the re module, on the ASCII characters the model uses.
IsWordChar(c) == IsDigit(c) \/ IsUpper(c) \/ IsLower(c) \/ c = "_"

\* \s of the re module.
IsSpace(c) == c \in {" ", "\t", "\n", "\r"}

ToLower(c) ==
    IF IsUpper(c)
    THEN LowerChars[CHOOSE k \in 1..Len(UpperChars) : UpperChars[k] = c]
    ELSE c

ToUpper(c) ==
    IF IsLower(c)
    THEN UpperChars[CHOOSE k \in 1..Len(LowerChars) : LowerChars[k] = c]
    ELSE c

\* str.lower()
Lower(s) == [k \in 1..Len(s) |-> ToLower(s[k])]

\* str.upper()
Upper(s) == [k \in 1..Len(s) |-> ToUpper(s[k])]

\* The literal p occurs in s at position i.
MatchAt(s, i, p) ==
    /\ i >= 1
    /\ i + Len(p) - 1 <= Len(s)
    /\ SubSeq(s, i, i + Len(p) - 1) = p

\* str.startswith(p)
StartsWith(s, p) == MatchAt(s, 1, p)

\* `p in s` on strings.
Contains(s, p) == \E i \in 1..(Len(s) - Len(p) + 1) : MatchAt(s, i, p)

\* \b before position i of s, where s[i] is a word character.
BoundaryBefore(s, i) == i = 1 \/ ~IsWordChar(s[i - 1])

\* \b after position j of s, where s[j] is a word character.
BoundaryAfter(s, j) == j = Len(s) \/ ~IsWordChar(s[j + 1])

\* re.search(r"\bTOK\b", s) for a token that starts and ends with a word
\* character.
HasWord(s, tok) ==
    \E i \in 1..(Len(s) - Len(tok) + 1) :
        /\ MatchAt(s, i, tok)
        /\ BoundaryBefore(s, i)
        /\ BoundaryAfter(s, i + Len(tok) - 1)

\* Number of characters of s from position i on that are in class cls
\* (a greedy [cls]* of a regular expression).
RECURSIVE Span(_, _, _)
Span(s, i, cls) ==
    IF i <= Len(s) /\ s[i] \in cls THEN 1 + Span(s, i + 1, cls) ELSE 0

DigitValue(c) == CHOOSE d \in 0..9 : <<"0","1","2","3","4","5","6","7","8","9">>[d + 1] = c

\* int(s) for a text of decimal digits.
RECURSIVE ParseInt(_)
ParseInt(s) ==
    IF s = <<>> THEN 0
    ELSE 10 * ParseInt(SubSeq(s, 1, Len(s) - 1)) + DigitValue(s[Len(s)])

\* str(n) for n >= 0.
RECURSIVE IntToText(_)
IntToText(n) ==
    IF n < 10 THEN <<<<"0","1","2","3","4","5","6","7","8","9">>[n + 1]>>
    ELSE IntToText(n \div 10) \o <<<<"0","1","2","3","4","5","6","7","8","9">>[(n % 10) + 1]>>

SetMin(S) == CHOOSE x \in S : \A y \in S : x <= y

SetMax(S) == CHOOSE x \in S : \A y \in S : x >= y

Min2(a, b) == IF a <= b THEN a ELSE b

(***************************************************************************)
(* Vocabulary (circuits/query.py, circuits/resolver.py).                   *)
(***************************************************************************)
EIA_CODES ==
    { <<"0","2","0","1">>, <<"0","4","0","2">>, <<"0","6","0","3">>, <<"0","8","0","5">>, <<"1","2","0","6">>, <<"1","2","1","0">>, <<"1","8","1","2">>,
      <<"2","0","1","0">>, <<"2","5","1","2">>, <<"1","0","0","8">>, <<"1","8","0","6">>, <<"2","8","1","6">>, <<"0","5","0","4">> }

\* re.findall(r"\d{4}", s): the non-overlapping runs of four digits, left
\* to right, from position i on.
RECURSIVE FindAll4(_, _)
FindAll4(s, i) ==
    IF i + 3 > Len(s) THEN <<>>
    ELSE IF \A k \in 0..3 : IsDigit(s[i + k])
         THEN <<SubSeq(s, i, i + 3)>> \o FindAll4(s, i + 4)
         ELSE FindAll4(s, i + 1)

\* The first four-digit run that is an EIA code, or None.
eia_from_footprint(fp) ==
    LET codes == FindAll4(fp, 1)
        hits  == {k \in 1..Len(codes) : codes[k] \in EIA_CODES}
    IN  IF hits = {} THEN <<>> ELSE codes[SetMin(hits)]

\* re.search(r"(?<![0-9])" + code + r"(?![0-9])", package), False for a
\* package that is None or empty.
package_matches_eia(package, eia_code) ==
    /\ package # <<>>
    /\ \E i \in 1..(Len(package) - Len(eia_code) + 1) :
           /\ MatchAt(package, i, eia_code)
           /\ (i = 1 \/ ~IsDigit(package[i - 1]))
           /\ LET j == i + Len(eia_code) - 1
              IN  j = Len(package) \/ ~IsDigit(package[j + 1])

\* Category keywords a candidate must show for this footprint prefix.
_expected_category_keywords(footprint) ==
    IF StartsWith(footprint, <<"R","_">>) THEN <<<<"r","e","s","i","s","t","o","r">>>>
    ELSE IF StartsWith(footprint, <<"C","_">>) THEN <<<<"c","a","p","a","c","i","t","o","r">>>>
    ELSE IF StartsWith(footprint, <<"F","u","s","e","_">>)
         THEN <<<<"f","u","s","e">>, <<"p","p","t","c">>, <<"c","i","r","c","u","i","t"," ","p","r","o","t","e","c","t","i","o","n">>>>
    ELSE <<>>

_FERRITE_KEYWORDS ==
    <<<<"f","e","r","r","i","t","e">>, <<"b","e","a","d">>, <<"i","n","d","u","c","t","o","r">>, <<"c","o","i","l">>, <<"c","h","o","k","e">>, <<"e","m","i">>>>

\* any(kw in (c.category or "").lower() for kw in keywords)
CategoryHasAny(c, keywords) ==
    \E k \in 1..Len(keywords) : Contains(Lower(c.category), keywords[k])

(***************************************************************************)
(* Candidates (JlcpcbSearchResult as resolve_part reads it): lcsc_part,    *)
(* description, mfr_part, package, category, stock, price (in cents,       *)
(* optional).                                                              *)
(***************************************************************************)
MIN_STOCK == 10

Cand(id, desc, mpn, pkg, cat, stock, price) ==
    [lcsc_part |-> id, description |-> desc, mfr_part |-> mpn,
     package |-> pkg, category |-> cat, stock |-> stock, price |-> price]

\* The candidates search results are made of.
Pool ==
    { Cand(1,  <<"1","0","u","F"," ","X","5","R">>, <<>>, <<"0","4","0","2">>, <<"C","a","p","a","c","i","t","o","r","s">>, 10, <<>>),
      Cand(2,  <<"1","0","u","F"," ","Y","5","V">>, <<>>, <<"0","4","0","2">>, <<"C","a","p","a","c","i","t","o","r","s">>, 1000000, <<1>>),
      Cand(3,  <<"1","0","u","F"," ","X","5","R">>, <<>>, <<"0","4","0","2">>, <<"C","a","p","a","c","i","t","o","r","s">>, 1000, <<>>),
      Cand(4,  <<"2","7"," ","o","h","m">>, <<>>, <<"R","0","4","0","2">>, <<"R","e","s","i","s","t","o","r","s">>, 1000000, <<1>>),
      Cand(5,  <<"2","7"," ","o","h","m">>, <<>>, <<"0","8","0","5">>, <<"C","h","i","p"," ","R","e","s","i","s","t","o","r">>, 1000, <<1>>),
      Cand(6,  <<"B","e","a","d"," ","2","A">>, <<>>, <<"1","2","0","6">>, <<"F","e","r","r","i","t","e"," ","B","e","a","d","s">>, 1000000, <<1>>),
      Cand(7,  <<"F","u","s","e"," ","1",".","5","A">>, <<>>, <<"1","2","0","6">>, <<"C","i","r","c","u","i","t"," ","P","r","o","t","e","c","t","i","o","n">>, 1000, <<100>>),
      Cand(8,  <<"1","2","0","R"," ","5","0","0","m","A">>, <<>>, <<"0","6","0","3">>, <<"F","e","r","r","i","t","e"," ","B","e","a","d","s">>, 1000, <<1>>),
      Cand(9,  <<"1","0","u","H"," ","1",".","5","A">>, <<>>, <<"0","6","0","3">>, <<"P","o","w","e","r"," ","I","n","d","u","c","t","o","r","s">>, 10, <<100>>),
      Cand(10, <<"1","x","4","P"," ","S","t","r","a","i","g","h","t">>, <<>>, <<>>, <<>>, 1000, <<1>>),
      Cand(11, <<"1","x","4","P"," ","R","i","g","h","t"," ","A","n","g","l","e">>, <<>>, <<>>, <<>>, 1000000, <<1>>),
      Cand(12, <<"1","x","6","P"," ","S","t","r","a","i","g","h","t">>, <<>>, <<>>, <<>>, 1000000, <<1>>),
      Cand(13, <<"1","0","u","F"," ","X","5","R">>, <<>>, <<"0","4","0","2">>, <<"C","a","p","a","c","i","t","o","r","s">>, 5, <<1>>),
      Cand(14, <<"1","0","0","n","F">>, <<"C","L","0","5","A","1","0","4">>, <<>>, <<"C","a","p","a","c","i","t","o","r","s">>, 0, <<>>),
      Cand(15, <<"1","0","u","F"," ","X","7","R">>, <<"C","L","0","5","A","1","0","6">>, <<>>, <<"C","a","p","a","c","i","t","o","r","s">>, 1000, <<1>>),
      Cand(16, <<"1","0","0","n","F"," ","X","7","R">>, <<>>, <<"1","0","4","0","2">>, <<>>, 1000, <<1>>),
      Cand(17, <<"1","2","0","R"," ","1","%">>, <<>>, <<"0","6","0","3">>, <<"R","e","s","i","s","t","o","r","s">>, 1000000, <<1>>),
      Cand(18, <<"1","0","u","F"," ","X","7","R">>, <<"C","L","0","5","A","1","0","6">>, <<>>, <<"C","a","p","a","c","i","t","o","r","s">>, 1000, <<1>>) }

\* A BOM line (comment, footprint) with the lcsc_part numbers of the
\* candidates a search for it can return.
BomLine(comment, footprint, results) ==
    [comment |-> comment, footprint |-> footprint, results |-> results]

BomLines ==
    { BomLine(<<"1","0","0","n","F">>, <<"C","_","0","4","0","2","_","1","0","0","5","M","e","t","r","i","c">>, {1, 2, 3, 4, 13, 14, 15, 16}),
      BomLine(<<"2","7">>, <<"R","_","0","4","0","2","_","1","0","0","5","M","e","t","r","i","c">>, {1, 2, 4, 5, 13, 14}),
      BomLine(<<"1",".","5","A">>, <<"F","u","s","e","_","1","2","0","6","_","3","2","1","6","M","e","t","r","i","c">>, {5, 6, 7, 13}),
      BomLine(<<"1","2","0","R","@","1","0","0","M","H","z">>, <<"L","_","0","6","0","3","_","1","6","0","8","M","e","t","r","i","c">>, {8, 9, 13, 17}),
      BomLine(<<"1","0","u","H">>, <<"L","_","0","6","0","3","_","1","6","0","8","M","e","t","r","i","c">>, {8, 9, 13, 17}),
      BomLine(<<"C","o","n","n">>, <<"P","i","n","H","e","a","d","e","r","_","1","x","0","4","_","P","2",".","5","4","m","m","_","V","e","r","t","i","c","a","l">>, {10, 11, 12, 13}),
      BomLine(<<"C","o","n","n">>, <<"P","i","n","H","e","a","d","e","r","_","1","x","0","4","_","P","2",".","5","4","m","m","_","H","o","r","i","z","o","n","t","a","l">>, {10, 11, 12, 13}),
      BomLine(<<"T","P","S","6","3","0","1","0">>, <<"V","Q","F","N","-","1","6","-","1","E","P","_","3","x","3","m","m">>, {9, 13, 14, 15, 18}) }

SeqsUpTo(S, n) == UNION {[1..k -> S] : k \in 0..n}

(***************************************************************************)
(* _score_candidate, in thousandths of a point.                            *)
(***************************************************************************)
\* floor(1000 * 20 * math.log10(stock)) on the stock values of the model.
Log10x20Milli(stock) ==
    CASE stock = 1       -> 0
      [] stock = 5       -> 13979
      [] stock = 10      -> 20000
      [] stock = 1000    -> 60000
      [] stock = 1000000 -> 120000


\* Mutant: the stock term without its cap.
StockTerm_NoCap(c) ==
    IF c.stock > 0 THEN Log10x20Milli(c.stock) ELSE 0

\* min(100.0, math.log10(stock) * 20) when stock > 0
StockTerm(c) ==
    IF c.stock > 0 THEN Min2(100000, Log10x20Milli(c.stock)) ELSE 0

\* min(30.0, 30.0 / (1.0 + price)) when price is known and positive;
\* price is in cents, so 30 / (1 + price/100) = 3000 / (100 + price).
PriceTerm(c) ==
    IF c.price # <<>> /\ c.price[1] > 0
    THEN Min2(30000, 3000000 \div (100 + c.price[1]))
    ELSE 0

HasStableDielectric(desc) ==
    \/ HasWord(desc, <<"C","0","G">>) \/ HasWord(desc, <<"N","P","0">>)
    \/ HasWord(desc, <<"X","7","R">>) \/ HasWord(desc, <<"X","5","R">>)

HasPoorDielectric(desc) ==
    \/ HasWord(desc, <<"Y","5","V">>) \/ HasWord(desc, <<"Z","5","U">>) \/ HasWord(desc, <<"Y","5","U">>)

\* +20 for a stable dielectric, else -50 for a poor one (capacitor pads).
DielectricTerm(c, footprint) ==
    IF StartsWith(footprint, <<"C","_">>)
    THEN LET desc == Upper(c.description)
         IN  IF HasStableDielectric(desc) THEN 20000
             ELSE IF HasPoorDielectric(desc) THEN 0 - 50000
             ELSE 0
    ELSE 0

RECURSIVE Pow10(_)
Pow10(k) == IF k = 0 THEN 1 ELSE 10 * Pow10(k - 1)

\* A match of (\d+\.?\d*)\s*UNIT(?![A-Z0-9]) starting at position i of s:
\* <<>> when there is none, else <<int part, fraction digits, their count>>.
NumberWithUnitAt(s, i, unit) ==
    LET d1 == Span(s, i, Digits)
        j  == i + d1
        dot == j <= Len(s) /\ s[j] = "."
        j2 == IF dot THEN j + 1 ELSE j
        d2 == Span(s, j2, Digits)
        k  == j2 + d2
        u  == k + Span(s, k, {" ", "\t", "\n", "\r"})
        e  == u + Len(unit)
    IN  IF /\ d1 >= 1
           /\ MatchAt(s, u, unit)
           /\ (e > Len(s) \/ ~(IsUpper(s[e]) \/ IsDigit(s[e])))
        THEN << ParseInt(SubSeq(s, i, j - 1)),
                ParseInt(SubSeq(s, j2, k - 1)), d2 >>
        ELSE <<>>

\* re.search of the pattern: the leftmost match, or <<>>.
NumberWithUnit(s, unit) ==
    LET starts == {i \in 1..Len(s) : NumberWithUnitAt(s, i, unit) # <<>>}
    IN  IF starts = {} THEN <<>> ELSE NumberWithUnitAt(s, SetMin(starts), unit)

\* min(30.0, current_ma / 100.0) for an inductor pad that is not a ferrite
\* bead: amps first, else milliamps, else 0.
CurrentTerm(c, footprint, comment) ==
    IF StartsWith(footprint, <<"L","_">>) /\ ~Contains(comment, <<"@">>)
    THEN LET desc == Upper(c.description)
             m_a  == NumberWithUnit(desc, <<"A">>)
             m_ma == NumberWithUnit(desc, <<"M","A">>)
             \* current_ma * 10 thousandths of a point
             milli == IF m_a # <<>>
                      THEN m_a[1] * 10000 + (m_a[2] * 10000) \div Pow10(m_a[3])
                      ELSE IF m_ma # <<>>
                      THEN m_ma[1] * 10 + (m_ma[2] * 10) \div Pow10(m_ma[3])
                      ELSE 0
         IN  Min2(30000, milli)
    ELSE 0

_score_candidate(c, footprint, comment) ==
    StockTerm(c) + PriceTerm(c) + DielectricTerm(c, footprint)
        + CurrentTerm(c, footprint, comment)

(***************************************************************************)
(* The stages of resolve_part as functions of the working list.            *)
(***************************************************************************)

\* Mutant: any stock above zero passes the stock filter.
StockFilter_Positive(cands) ==
    LET Test(c) == c.stock > 0 IN SelectSeq(cands, Test)

\* Step 1: [c for c in candidates if c.stock >= MIN_STOCK]
StockFilter(cands) ==
    LET Test(c) == c.stock >= MIN_STOCK IN SelectSeq(cands, Test)


\* Mutant: the smallest stock is reported.
MaxStock_Min(cands) == SetMin({cands[k].stock : k \in 1..Len(cands)})

\* max(c.stock for c in candidates)
MaxStock(cands) == SetMax({cands[k].stock : k \in 1..Len(cands)})


\* Mutant: the category filter without its fallback.
CategoryFilter_NoFallback(work, footprint) ==
    LET category_keywords == _expected_category_keywords(footprint)
        Test(c) == CategoryHasAny(c, category_keywords)
    IN  IF category_keywords # <<>> THEN SelectSeq(work, Test) ELSE work

\* Mutant: the category filter left out.
CategoryFilter_Skip(work, footprint) == work

\* Step 1.2: the category filter, kept only when it leaves something.
CategoryFilter(work, footprint) ==
    LET category_keywords == _expected_category_keywords(footprint)
        Test(c) == CategoryHasAny(c, category_keywords)
        type_matched == SelectSeq(work, Test)
    IN  IF category_keywords # <<>> /\ type_matched # <<>>
        THEN type_matched
        ELSE work

\* footprint.startswith("L_") and "@" in comment
IsFerriteLine(footprint, comment) ==
    StartsWith(footprint, <<"L","_">>) /\ Contains(comment, <<"@">>)

\* Step 1.5: the ferrite bead filter, kept only when it leaves something.
FerriteFilter(work, footprint, comment) ==
    LET Test(c) == CategoryHasAny(c, _FERRITE_KEYWORDS)
        ferrite_candidates == SelectSeq(work, Test)
    IN  IF IsFerriteLine(footprint, comment) /\ ferrite_candidates # <<>>
        THEN ferrite_candidates
        ELSE work


\* Mutant: the package filter with the fallback of the soft stages.
PackageFilter_Fallback(work, eia_code) ==
    LET Test(c) == package_matches_eia(c.package, eia_code)
        matched == SelectSeq(work, Test)
    IN  IF matched = <<>> THEN work ELSE matched

\* Mutant: the package must equal the code.
PackageFilter_Exact(work, eia_code) ==
    LET Test(c) == c.package = eia_code IN SelectSeq(work, Test)

\* Step 2: [c for c in in_stock if _package_contains_eia(c.package, eia_code)]
PackageFilter(work, eia_code) ==
    LET Test(c) == package_matches_eia(c.package, eia_code)
    IN  SelectSeq(work, Test)

\* Order of the characters of the model's texts (their code points).
CharOrder ==
    <<" ","*","-",".","/","0","1","2","3","4","5","6","7","8","9","@","A","B","C","D","E","F","G","H","I","J","K","L","M","N","O","P","Q","R","S","T","U","V","W","X","Y","Z","_","a","b","c","d","e","f","g","h","i","j","k","l","m","n","o","p","q","r","s","t","u","v","w","x","y","z">>

CharOrd(c) == CHOOSE k \in 1..Len(CharOrder) : CharOrder[k] = c

\* a < b on strings.
RECURSIVE TextLess(_, _)
TextLess(a, b) ==
    IF b = <<>> THEN FALSE
    ELSE IF a = <<>> THEN TRUE
    ELSE IF a[1] = b[1] THEN TextLess(Tail(a), Tail(b))
    ELSE CharOrd(a[1]) < CharOrd(b[1])

\* sorted(S)[:n] for a set S of texts.
RECURSIVE SortedFirst(_, _)
SortedFirst(S, n) ==
    IF S = {} \/ n = 0 THEN <<>>
    ELSE LET m == CHOOSE x \in S : \A y \in S \ {x} : TextLess(x, y)
         IN  <<m>> \o SortedFirst(S \ {m}, n - 1)

\* The error of the package stage when nothing matched.
PackageError(work, eia_code) ==
    LET Test(c) == c.package # <<>>
        with_package == SelectSeq(work, Test)
    IN  IF with_package # <<>>
        THEN [kind |-> "PackageMismatch", eia_code |-> eia_code,
              found_packages |->
                  SortedFirst({with_package[k].package :
                                   k \in 1..Len(with_package)}, 5)]
        ELSE [kind |-> "NoPackageInfo", eia_code |-> eia_code,
              in_stock |-> Len(work)]

\* re.match(r"PinHeader_(\d+)x(\d+)_P[\d.]+mm(?:_(Vertical|Horizontal))?",
\* footprint): <<>> or <<rows, cols, orientation>>.
PinHeaderMatch(footprint) ==
    LET i1 == 11
        r  == Span(footprint, i1, Digits)
        ix == i1 + r
        c  == Span(footprint, ix + 1, Digits)
        ip == ix + 1 + c
        p  == Span(footprint, ip + 2, Digits \cup {"."})
        im == ip + 2 + p
        io == im + 2
    IN  IF /\ StartsWith(footprint, <<"P","i","n","H","e","a","d","e","r","_">>)
           /\ r >= 1
           /\ MatchAt(footprint, ix, <<"x">>)
           /\ c >= 1
           /\ MatchAt(footprint, ip, <<"_","P">>)
           /\ p >= 1
           /\ MatchAt(footprint, im, <<"m","m">>)
        THEN << SubSeq(footprint, i1, ix - 1),
                SubSeq(footprint, ix + 1, ip - 1),
                IF MatchAt(footprint, io, <<"_","V","e","r","t","i","c","a","l">>) THEN <<"V","e","r","t","i","c","a","l">>
                ELSE IF MatchAt(footprint, io, <<"_","H","o","r","i","z","o","n","t","a","l">>)
                     THEN <<"H","o","r","i","z","o","n","t","a","l">>
                ELSE <<>> >>
        ELSE <<>>

\* The six description patterns for an n-pin header.
_desc_has_pin_count(desc, n) ==
    LET dl == Lower(desc)
        N  == IntToText(n)
        L  == Len(N)
        \* 1[x*×]{n} starting at i: the position after it, or 0
        OneByN(i) ==
            IF /\ MatchAt(dl, i, <<"1">>)
               /\ i + 1 <= Len(dl)
               /\ dl[i + 1] \in {"x", "*", "×"}
               /\ MatchAt(dl, i + 2, N)
            THEN i + 2 + L
            ELSE 0
        \* \b{n}TAIL\b at i
        NThen(i, tail) ==
            /\ MatchAt(dl, i, N \o tail)
            /\ BoundaryBefore(dl, i)
            /\ BoundaryAfter(dl, i + L + Len(tail) - 1)
    IN  \E i \in 1..Len(dl) :
            \/ /\ OneByN(i) # 0                         \* 1x4P\b
               /\ MatchAt(dl, OneByN(i), <<"p">>)
               /\ BoundaryAfter(dl, OneByN(i))
            \/ /\ OneByN(i) # 0                         \* 1x4(?!\d)
               /\ (OneByN(i) > Len(dl) \/ ~IsDigit(dl[OneByN(i)]))
            \/ NThen(i, <<"x","1">>)
            \/ NThen(i, <<"-","p","i","n">>)
            \/ NThen(i, <<"p","i","n">>)
            \/ NThen(i, <<"*","1">>)

\* Step 2.5, pin count: kept only when it leaves something.
PinCountFilter(work, footprint) ==
    LET ph_m == PinHeaderMatch(footprint)
        expected_pins == ParseInt(ph_m[1]) * ParseInt(ph_m[2])
        Test(c) == _desc_has_pin_count(c.description, expected_pins)
        pin_matched == SelectSeq(work, Test)
    IN  IF ph_m # <<>> /\ pin_matched # <<>> THEN pin_matched ELSE work

\* re.search(r"right.?angle|horizontal|angled", desc, re.IGNORECASE)
_RA_PATTERN(desc) ==
    LET dl == Lower(desc)
    IN  \/ Contains(dl, <<"h","o","r","i","z","o","n","t","a","l">>)
        \/ Contains(dl, <<"a","n","g","l","e","d">>)
        \/ \E i \in 1..Len(dl) :
               /\ MatchAt(dl, i, <<"r","i","g","h","t">>)
               /\ \/ MatchAt(dl, i + 5, <<"a","n","g","l","e">>)
                  \/ /\ i + 5 <= Len(dl)
                     /\ dl[i + 5] # "\n"
                     /\ MatchAt(dl, i + 6, <<"a","n","g","l","e">>)

\* Step 2.5, orientation: kept only when it leaves something.
OrientationFilter(work, footprint) ==
    LET ph_m == PinHeaderMatch(footprint)
        ph_orient == ph_m[3]
        Test(c) == IF ph_orient = <<"V","e","r","t","i","c","a","l">>
                   THEN ~_RA_PATTERN(c.description)
                   ELSE _RA_PATTERN(c.description)
        orient_matched == SelectSeq(work, Test)
    IN  IF ph_m # <<>> /\ ph_orient # <<>> /\ orient_matched # <<>>
        THEN orient_matched
        ELSE work

\* Step 3: max(candidates_to_rank, key=score): the first element of
\* maximal score.
\* Mutant: of several candidates of maximum score the last one is selected.
SelectBest_Last(work, footprint, comment) ==
    LET score(k) == _score_candidate(work[k], footprint, comment)
        best == {k \in 1..Len(work) : \A j \in 1..Len(work) : score(j) <= score(k)}
    IN  work[SetMax(best)]

\* max(candidates_to_rank, key=...): the first candidate of maximum score.
SelectBest(work, footprint, comment) ==
    LET score(k) == _score_candidate(work[k], footprint, comment)
        best == {k \in 1..Len(work) : \A j \in 1..Len(work) : score(j) <= score(k)}
    IN  work[SetMin(best)]

\* BomLookupRow.is_resolved
is_resolved(sel, err) == sel # <<>> /\ err = <<>>

(***************************************************************************)
(* The shop workflow: Part, filter_candidates, vendor filter and ranking.  *)
(***************************************************************************)
\* One entry of _MPN_PACKAGE_PATTERNS: the literal prefixes the anchored
\* pattern accepts, the character that may follow one skipped character
\* (`ERJ.?2`), and the EIA code it infers.
MpnPattern(prefixes, skip, code) ==
    [prefixes |-> prefixes, skip |-> skip, code |-> code]

_MPN_PACKAGE_PATTERNS ==
    << MpnPattern({<<"C","L","0","3">>}, <<>>, <<"0","2","0","1">>), MpnPattern({<<"C","L","0","5">>}, <<>>, <<"0","4","0","2">>),
       MpnPattern({<<"C","L","1","0">>}, <<>>, <<"0","6","0","3">>), MpnPattern({<<"C","L","2","1">>}, <<>>, <<"0","8","0","5">>),
       MpnPattern({<<"C","L","3","1">>}, <<>>, <<"1","2","0","6">>), MpnPattern({<<"C","L","3","2">>}, <<>>, <<"1","2","1","0">>),
       MpnPattern({<<"C","L","4","3">>}, <<>>, <<"1","8","1","2">>),
       MpnPattern({<<"G","R","M","0","3">>}, <<>>, <<"0","2","0","1">>), MpnPattern({<<"G","R","M","1","5">>}, <<>>, <<"0","4","0","2">>),
       MpnPattern({<<"G","R","M","1","8">>}, <<>>, <<"0","6","0","3">>), MpnPattern({<<"G","R","M","2","1">>}, <<>>, <<"0","8","0","5">>),
       MpnPattern({<<"G","R","M","3","1">>}, <<>>, <<"1","2","0","6">>), MpnPattern({<<"G","R","M","3","2">>}, <<>>, <<"1","2","1","0">>),
       MpnPattern({<<"G","R","M","4","3">>}, <<>>, <<"1","8","0","6">>),
       MpnPattern({<<"G","C","M","0","3">>}, <<>>, <<"0","2","0","1">>), MpnPattern({<<"G","C","M","1","5">>}, <<>>, <<"0","4","0","2">>),
       MpnPattern({<<"G","C","M","1","8">>}, <<>>, <<"0","6","0","3">>), MpnPattern({<<"G","C","M","2","1">>}, <<>>, <<"0","8","0","5">>),
       MpnPattern({<<"G","C","M","3","1">>}, <<>>, <<"1","2","0","6">>), MpnPattern({<<"G","C","M","3","2">>}, <<>>, <<"1","2","1","0">>),
       MpnPattern({<<"J","M","K","1","0","5">>}, <<>>, <<"0","4","0","2">>), MpnPattern({<<"J","M","K","1","0","7">>}, <<>>, <<"0","6","0","3">>),
       MpnPattern({<<"J","M","K","2","1","2">>}, <<>>, <<"0","8","0","5">>), MpnPattern({<<"J","M","K","3","1","6">>}, <<>>, <<"1","2","0","6">>),
       MpnPattern({<<"J","M","K","3","2","5">>}, <<>>, <<"1","2","1","0">>),
       MpnPattern({<<"C","1","0","0","5">>, <<"C","G","A","1","0","0","5">>, <<"C","K","G","1","0","0","5">>}, <<>>, <<"0","4","0","2">>),
       MpnPattern({<<"C","1","6","0","8">>, <<"C","G","A","1","6","0","8">>, <<"C","K","G","1","6","0","8">>}, <<>>, <<"0","6","0","3">>),
       MpnPattern({<<"C","2","0","1","2">>, <<"C","G","A","2","0","1","2">>, <<"C","K","G","2","0","1","2">>}, <<>>, <<"0","8","0","5">>),
       MpnPattern({<<"C","3","2","1","6">>, <<"C","G","A","3","2","1","6">>, <<"C","K","G","3","2","1","6">>}, <<>>, <<"1","2","0","6">>),
       MpnPattern({<<"C","3","2","2","5">>, <<"C","G","A","3","2","2","5">>, <<"C","K","G","3","2","2","5">>}, <<>>, <<"1","2","1","0">>),
       MpnPattern({<<"C","C","0","2","0","1">>, <<"R","C","0","2","0","1">>}, <<>>, <<"0","2","0","1">>),
       MpnPattern({<<"C","C","0","4","0","2">>, <<"R","C","0","4","0","2">>}, <<>>, <<"0","4","0","2">>),
       MpnPattern({<<"C","C","0","6","0","3">>, <<"R","C","0","6","0","3">>}, <<>>, <<"0","6","0","3">>),
       MpnPattern({<<"C","C","0","8","0","5">>, <<"R","C","0","8","0","5">>}, <<>>, <<"0","8","0","5">>),
       MpnPattern({<<"C","C","1","2","0","6">>, <<"R","C","1","2","0","6">>}, <<>>, <<"1","2","0","6">>),
       MpnPattern({<<"C","C","1","2","1","0">>, <<"R","C","1","2","1","0">>}, <<>>, <<"1","2","1","0">>),
       MpnPattern({<<"C","R","C","W","0","2","0","1">>}, <<>>, <<"0","2","0","1">>), MpnPattern({<<"C","R","C","W","0","4","0","2">>}, <<>>, <<"0","4","0","2">>),
       MpnPattern({<<"C","R","C","W","0","6","0","3">>}, <<>>, <<"0","6","0","3">>), MpnPattern({<<"C","R","C","W","0","8","0","5">>}, <<>>, <<"0","8","0","5">>),
       MpnPattern({<<"C","R","C","W","1","2","0","6">>}, <<>>, <<"1","2","0","6">>), MpnPattern({<<"C","R","C","W","1","2","1","0">>}, <<>>, <<"1","2","1","0">>),
       MpnPattern({<<"E","R","J">>}, <<"2">>, <<"0","4","0","2">>), MpnPattern({<<"E","R","J">>}, <<"3">>, <<"0","6","0","3">>),
       MpnPattern({<<"E","R","J">>}, <<"6">>, <<"0","8","0","5">>), MpnPattern({<<"E","R","J">>}, <<"8">>, <<"1","2","0","6">>),
       MpnPattern({<<"E","R","J">>}, <<"R">>, <<"0","2","0","1">>),
       MpnPattern({<<"B","L","M","1","5">>}, <<>>, <<"0","4","0","2">>), MpnPattern({<<"B","L","M","1","8">>}, <<>>, <<"0","6","0","3">>),
       MpnPattern({<<"B","L","M","2","1">>}, <<>>, <<"0","8","0","5">>), MpnPattern({<<"B","L","M","3","1">>}, <<>>, <<"1","2","0","6">>),
       MpnPattern({<<"L","Q","M","2","1">>}, <<>>, <<"0","8","0","5">>), MpnPattern({<<"L","Q","M","3","1">>}, <<>>, <<"1","2","0","6">>),
       MpnPattern({<<"L","Q","M","3","2">>}, <<>>, <<"1","2","1","0">>), MpnPattern({<<"L","Q","M","4","3">>}, <<>>, <<"1","8","1","2">>) >>

\* pattern.match(mpn) with re.IGNORECASE, on the upper-cased MPN u: the
\* pattern is anchored at the start; `.?` takes one character other than a
\* newline, or none.
MpnPatternMatches(pat, u) ==
    \E p \in pat.prefixes :
        /\ StartsWith(u, p)
        /\ \/ pat.skip = <<>>
           \/ MatchAt(u, Len(p) + 1, pat.skip)
           \/ /\ MatchAt(u, Len(p) + 2, pat.skip)
              /\ u[Len(p) + 1] # "\n"

\* The code of the first pattern that matches, None otherwise.
infer_package_from_mpn(mpn) ==
    LET u == Upper(mpn)
        hits == {k \in 1..Len(_MPN_PACKAGE_PATTERNS) :
                    MpnPatternMatches(_MPN_PACKAGE_PATTERNS[k], u)}
    IN  IF mpn = <<>> \/ hits = {}
        THEN <<>>
        ELSE _MPN_PACKAGE_PATTERNS[SetMin(hits)].code

\* MPN prefixes that are the wrong component type for a fuse pad.
_FOOTPRINT_CATEGORY_DENY == {<<"B","L","M">>, <<"L","Q","M">>, <<"C","R","C","W">>, <<"R","C">>, <<"E","R","J">>}

\* re.match(r"^BLM", mpn, re.IGNORECASE)
_mpn_is_ferrite_bead(mpn) == StartsWith(Upper(mpn), <<"B","L","M">>)

\* The `package` field when it is set, else the package inferred from the MPN.
_effective_package(p) ==
    IF p.package # <<>> THEN p.package ELSE infer_package_from_mpn(p.part_number)

\* Mutant: when the package filter leaves nothing, the list given to
\* filter_candidates is returned, whatever the type filters removed.
filter_candidates_ReturnInput(cands, fp) ==
    LET IsFuse == StartsWith(fp, <<"F","u","s","e","_">>)
        RightType(p) ==
            ~\E bad \in _FOOTPRINT_CATEGORY_DENY : StartsWith(Upper(p.part_number), bad)
        type_filtered == SelectSeq(cands, RightType)
        step1 == IF IsFuse /\ type_filtered # <<>> THEN type_filtered ELSE cands
        NotBead(p) == ~_mpn_is_ferrite_bead(p.part_number)
        non_bead == SelectSeq(step1, NotBead)
        step2 == IF IsFuse /\ non_bead # <<>> THEN non_bead ELSE step1
        eia_code == eia_from_footprint(fp)
        Matches(p) == package_matches_eia(_effective_package(p), eia_code)
        matched == SelectSeq(step2, Matches)
    IN  IF cands = <<>> THEN cands
        ELSE IF eia_code = <<>> THEN step2
        ELSE IF matched = <<>> THEN cands
        ELSE matched

\* Mutant: the package filter is kept even when it leaves nothing.
filter_candidates_NoFallback(cands, fp) ==
    LET eia_code == eia_from_footprint(fp)
        Matches(p) == package_matches_eia(_effective_package(p), eia_code)
    IN  IF eia_code = <<>> THEN cands ELSE SelectSeq(cands, Matches)

\* filter_candidates(candidates, footprint, value): each filter is kept only
\* when it leaves something.
filter_candidates(cands, fp) ==
    LET IsFuse == StartsWith(fp, <<"F","u","s","e","_">>)
        RightType(p) ==
            ~\E bad \in _FOOTPRINT_CATEGORY_DENY : StartsWith(Upper(p.part_number), bad)
        type_filtered == SelectSeq(cands, RightType)
        step1 == IF IsFuse /\ type_filtered # <<>> THEN type_filtered ELSE cands
        NotBead(p) == ~_mpn_is_ferrite_bead(p.part_number)
        non_bead == SelectSeq(step1, NotBead)
        step2 == IF IsFuse /\ non_bead # <<>> THEN non_bead ELSE step1
        eia_code == eia_from_footprint(fp)
        Matches(p) == package_matches_eia(_effective_package(p), eia_code)
        matched == SelectSeq(step2, Matches)
    IN  IF cands = <<>> THEN cands
        ELSE IF eia_code = <<>> THEN step2
        ELSE IF matched = <<>> THEN step2
        ELSE matched

\* _matches_vendor_filter(part, vendors_filter)
_matches_vendor_filter(part, vendors) ==
    IF vendors = <<>> THEN TRUE
    ELSE IF part.distributor_name = <<>> THEN FALSE
    ELSE \E k \in 1..Len(vendors) :
             Contains(Lower(part.distributor_name), Lower(vendors[k]))

\* The price _rank gives a part whose unit price is unknown, in hundredths
\* of a dollar (cents).
UnknownPrice == 999999900

\* _rank(part): (-in_stock, -(quantity_in_stock or 0), price); quantities
\* are optional numbers, prices are in cents.
_rank(part) ==
    LET qty == IF part.quantity_in_stock = <<>> THEN 0 ELSE part.quantity_in_stock[1]
        price == IF part.unit_price = <<>> THEN UnknownPrice ELSE part.unit_price[1]
    IN  << -(IF qty > 0 THEN 1 ELSE 0), -qty, price >>

\* Python's tuple order on two sort keys.
KeyLess(a, b) ==
    \/ a[1] < b[1]
    \/ a[1] = b[1] /\ a[2] < b[2]
    \/ a[1] = b[1] /\ a[2] = b[2] /\ a[3] < b[3]

\* sorted(parts, key=_rank): stable, so parts of equal key keep their order.
RECURSIVE SortedByRank(_)
SortedByRank(s) ==
    IF s = <<>> THEN <<>>
    ELSE LET first == CHOOSE k \in 1..Len(s) :
                          /\ \A j \in 1..Len(s) : ~KeyLess(_rank(s[j]), _rank(s[k]))
                          /\ \A j \in 1..(k - 1) : KeyLess(_rank(s[k]), _rank(s[j]))
             rest  == [j \in 1..(Len(s) - 1) |-> IF j < first THEN s[j] ELSE s[j + 1]]
         IN  <<s[first]>> \o SortedByRank(rest)

\* ranked[:max_vendors]
Take(s, n) == SubSeq(s, 1, Min2(n, Len(s)))

\* Mutant: the list is cut to max_vendors before it is ranked.
RetainedCandidates_CutBeforeRank(results, fp, filter, n) ==
    LET filtered_pkg == filter_candidates(results, fp)
        Wanted(p) == _matches_vendor_filter(p, filter)
        by_vendor == SelectSeq(filtered_pkg, Wanted)
        filtered == IF by_vendor = <<>> THEN filtered_pkg ELSE by_vendor
    IN  SortedByRank(Take(filtered, n))

\* Mutant: no fallback when no result is from a requested vendor.
RetainedCandidates_NoVendorFallback(results, fp, filter, n) ==
    LET filtered_pkg == filter_candidates(results, fp)
        Wanted(p) == _matches_vendor_filter(p, filter)
    IN  Take(SortedByRank(SelectSeq(filtered_pkg, Wanted)), n)

\* The tail of _search_item once a search has returned parts: filter by
\* package and type, filter by vendor (kept only when it leaves something),
\* rank, and cut to max_vendors.
RetainedCandidates(results, fp, filter, n) ==
    LET filtered_pkg == filter_candidates(results, fp)
        Wanted(p) == _matches_vendor_filter(p, filter)
        by_vendor == SelectSeq(filtered_pkg, Wanted)
        filtered == IF by_vendor = <<>> THEN filtered_pkg ELSE by_vendor
    IN  Take(SortedByRank(filtered), n)

\* A Part as the search adapter builds it; id is the identity of the object,
\* so that one object returned to two lines is one part.
Part(id, part_number, distributor_name, quantity_in_stock, unit_price, package) ==
    [id |-> id, part_number |-> part_number, distributor_name |-> distributor_name,
     quantity_in_stock |-> quantity_in_stock, unit_price |-> unit_price,
     package |-> package]

\* The parts the remote search service knows.
Parts ==
    << Part(1, <<"C","L","0","5","B","1","0","4","K","O","5","N","N","N","C">>, <<"D","i","g","i","K","e","y">>, <<5000>>, <<10>>, <<>>),
       Part(2, <<"G","R","M","1","8","8","R","7","1","H","1","0","4","K","A","9","3","D">>, <<"M","o","u","s","e","r">>, <<9000>>, <<8>>, <<>>),
       Part(3, <<"B","L","M","1","8","P","G","1","2","1","S","N","1","D">>, <<"D","i","g","i","-","K","e","y"," ","E","l","e","c","t","r","o","n","i","c","s">>, <<>>, <<>>, <<"0","6","0","3">>),
       Part(4, <<"R","C","0","6","0","3","F","R","-","0","7","1","0","K","L">>, <<"M","o","u","s","e","r">>, <<100>>, <<2>>, <<"0","6","0","3">>),
       Part(5, <<"0","4","6","7","0","0","1",".","5","N","R">>, <<>>, <<300>>, <<50>>, <<"1","2","0","6">>) >>

PartIds == 1..Len(Parts)

\* What adapter.search can return: lists of parts, in the service's order.
SearchResponses ==
    { <<>>, <<Parts[1], Parts[2]>>, <<Parts[4], Parts[2]>>,
      <<Parts[3], Parts[5], Parts[1]>> }

\* The texts of the exceptions adapter.search can raise.
SearchFailures == { <<"t","i","m","e","o","u","t">> }

\* A BOMItem.
BOMItem(references, value, fp, part_number) ==
    [references |-> references, value |-> value, footprint |-> fp,
     part_number |-> part_number]

\* The BOM lines of the modelled projects; a BOM is a prefix of them.
BomItems ==
    << BOMItem(<<"C1", "C2">>, <<"1","0","0","n","F">>, <<"C","_","0","4","0","2","_","1","0","0","5","M","e","t","r","i","c">>, <<>>),
       BOMItem(<<"R1">>, <<"1","0","k">>, <<"R","_","0","6","0","3","_","1","6","0","8","M","e","t","r","i","c">>, <<"R","C","0","6","0","3","F","R","-","0","7","1","0","K","L">>),
       BOMItem(<<"F1">>, <<"1",".","5","A">>, <<"F","u","s","e","_","1","2","0","6","_","3","2","1","6","M","e","t","r","i","c">>, <<"0","4","6","7","0","0","1",".","5","N","R">>),
       BOMItem(<<"U1">>, <<"T","P","S","6","3","0","1","0">>, <<"V","Q","F","N","-","1","6","-","1","E","P","_","3","x","3","m","m">>, <<>>),
       BOMItem(<<"U2">>, <<"T","P","S","6","3","0","1","0">>, <<"V","Q","F","N","-","1","6","-","1","E","P","_","3","x","3","m","m">>, <<"T","P","S","6","3","0","1","0">>) >>

\* The i-th line of a BOM.
BomIndex(i) == ((i - 1) % Len(BomItems)) + 1
BomItemAt(i) == BomItems[BomIndex(i)]

\* The vendors_filter arguments.
VendorFilters == { <<>>, <<<<"d","i","g","i","k","e","y">>>> }

\* asyncio.Semaphore(value): the counter, the queue of waiting tasks, and
\* the waiting tasks whose future is done (woken, not yet resumed).
Semaphore(value) == [value |-> value, waiters |-> <<>>, done |-> {}]

\* Mutant: the semaphore never reports itself locked.
locked_Never(s) == FALSE

\* Semaphore.locked()
locked(s) == s.value = 0 \/ s.waiters # <<>>

\* Semaphore._wake_up_next(): hand the permit to the first waiter whose
\* future is not done.
_wake_up_next(s) ==
    LET pending == {k \in 1..Len(s.waiters) : s.waiters[k] \notin s.done}
    IN  IF pending = {} THEN s
        ELSE [s EXCEPT !.value = @ - 1,
                       !.done = @ \cup {s.waiters[SetMin(pending)]}]

\* Semaphore.release()
release(s) == _wake_up_next([s EXCEPT !.value = @ + 1])

\* The end of Semaphore.acquire() in a task that was woken: leave the queue,
\* and pass on a permit that is still free.
acquire_resumed(s, i) ==
    LET NotI(t) == t # i
        left == [s EXCEPT !.waiters = SelectSeq(@, NotI), !.done = @ \ {i}]
    IN  IF left.value > 0 THEN _wake_up_next(left) ELSE left

(***************************************************************************)
(* Search queries (circuits/query.py).                                     *)
(***************************************************************************)
\* str.strip()
Strip(s) ==
    LET ns == {k \in 1..Len(s) : ~IsSpace(s[k])}
    IN  IF ns = {} THEN <<>> ELSE SubSeq(s, SetMin(ns), SetMax(ns))

\* re.sub(r"\s+", " ", s): every run of whitespace becomes one space.
CollapseSpaces(s) ==
    LET idx == [k \in 1..Len(s) |-> k]
        Keep(k) == ~IsSpace(s[k]) \/ k = 1 \/ ~IsSpace(s[k - 1])
        kept == SelectSeq(idx, Keep)
    IN  [j \in 1..Len(kept) |-> IF IsSpace(s[kept[j]]) THEN " " ELSE s[kept[j]]]

\* The character classes [A-Z], \w and [\w-] of the connector patterns.
UpperClass == {UpperChars[k] : k \in 1..Len(UpperChars)}

WordClass ==
    Digits \cup UpperClass \cup {LowerChars[k] : k \in 1..Len(LowerChars)}
        \cup {"_"}

WordDashClass == WordClass \cup {"-"}

\* re.match(r"^\d+\.?\d*$", s) on a text without line breaks.
IsBareNumber(s) ==
    LET d == Span(s, 1, Digits)
    IN  /\ d >= 1
        /\ \/ d = Len(s)
           \/ /\ s[d + 1] = "."
              /\ d + 1 + Span(s, d + 2, Digits) = Len(s)

_sanitize_query(comment) ==
    LET q1 == Strip(comment)
        q2 == [k \in 1..Len(q1) |->
                  IF q1[k] \in {"@", "/", "\\"} THEN " " ELSE q1[k]]
    IN  Strip(CollapseSpaces(q2))

_build_connector_query(value, footprint) ==
    LET n == Len(footprint)
        \* JST_[A-Z]+_([\w-]+?)_\d+x\d+ : the shortest group that is
        \* followed by _<digits>x<digit>
        ja == Span(footprint, 5, UpperClass)
        jg == 5 + ja + 1
        jends == {e \in jg..n :
                     /\ \A k \in jg..e : footprint[k] \in WordDashClass
                     /\ MatchAt(footprint, e + 1, <<"_">>)
                     /\ LET d == Span(footprint, e + 2, Digits)
                        IN  /\ d >= 1
                            /\ MatchAt(footprint, e + 2 + d, <<"x">>)
                            /\ e + 3 + d <= n
                            /\ IsDigit(footprint[e + 3 + d])}
        jst == /\ StartsWith(footprint, <<"J","S","T","_">>)
               /\ ja >= 1
               /\ MatchAt(footprint, 5 + ja, <<"_">>)
               /\ jends # {}
        \* USB_C_Receptacle_\w+_([\w-]+) : the greedy \w+ gives back up to
        \* its last underscore that a group can follow
        cw == Span(footprint, 18, WordClass)
        cus == {u \in 19..(17 + cw) :
                   /\ footprint[u] = "_"
                   /\ u + 1 <= n
                   /\ footprint[u + 1] \in WordDashClass}
        usbc == StartsWith(footprint, <<"U","S","B","_","C","_","R","e","c","e","p","t","a","c","l","e","_">>) /\ cus # {}
        cu == SetMax(cus)
        \* USB_[A-Z]+_\w+_\w+_([\w-]+) : both \w+ greedy, the first one first
        ua == Span(footprint, 5, UpperClass)
        us == 5 + ua + 1
        uw == Span(footprint, us, WordClass)
        Second(u1) == {u2 \in (u1 + 2)..(us + uw - 1) :
                          /\ footprint[u2] = "_"
                          /\ u2 + 1 <= n
                          /\ footprint[u2 + 1] \in WordDashClass}
        firsts == {u1 \in (us + 1)..(us + uw - 1) :
                      footprint[u1] = "_" /\ Second(u1) # {}}
        usb == /\ StartsWith(footprint, <<"U","S","B","_">>)
               /\ ua >= 1
               /\ MatchAt(footprint, 5 + ua, <<"_">>)
               /\ firsts # {}
        uu == SetMax(Second(SetMax(firsts)))
        \* PinHeader_(\d+)x(\d+)_P([\d.]+mm)(?:_(Vertical|Horizontal))?
        r  == Span(footprint, 11, Digits)
        ix == 11 + r
        c  == Span(footprint, ix + 1, Digits)
        ip == ix + 1 + c
        p  == Span(footprint, ip + 2, Digits \cup {"."})
        im == ip + 2 + p
        pin == /\ StartsWith(footprint, <<"P","i","n","H","e","a","d","e","r","_">>)
               /\ r >= 1
               /\ MatchAt(footprint, ix, <<"x">>)
               /\ c >= 1
               /\ MatchAt(footprint, ip, <<"_","P">>)
               /\ p >= 1
               /\ MatchAt(footprint, im, <<"m","m">>)
        rows == SubSeq(footprint, 11, ix - 1)
        cols == SubSeq(footprint, ix + 1, ip - 1)
        pitch == SubSeq(footprint, ip + 2, im + 1)
        orient == IF MatchAt(footprint, im + 2, <<"_","V","e","r","t","i","c","a","l">>) THEN <<"V","e","r","t","i","c","a","l">>
                  ELSE IF MatchAt(footprint, im + 2, <<"_","H","o","r","i","z","o","n","t","a","l">>)
                       THEN <<"H","o","r","i","z","o","n","t","a","l">>
                  ELSE <<>>
        pins == ParseInt(rows) * ParseInt(cols)
        orient_word == IF orient # <<>> THEN <<" ">> \o Lower(orient) ELSE <<>>
    IN  IF jst THEN SubSeq(footprint, jg, SetMin(jends))
        ELSE IF usbc
             THEN SubSeq(footprint, cu + 1,
                         cu + Span(footprint, cu + 1, WordDashClass))
        ELSE IF usb
             THEN SubSeq(footprint, uu + 1,
                         uu + Span(footprint, uu + 1, WordDashClass))
        ELSE IF pin
             THEN pitch \o <<" ">> \o IntToText(pins) \o <<" ","p","i","n"," ","h","e","a","d","e","r">>
                      \o orient_word
        ELSE _sanitize_query(value)

_CONNECTOR_PREFIXES ==
    <<<<"J","S","T","_">>, <<"U","S","B","_">>, <<"P","i","n","H","e","a","d","e","r","_">>, <<"C","o","n","n","_">>, <<"M","o","l","e","x","_">>>>

\* build_search_query without the test that the text already holds the code.
build_search_query_AlwaysAppend(value, footprint) ==
    LET _is_ferrite_bead == StartsWith(footprint, <<"L","_">>) /\ Contains(value, <<"@">>)
        base == _sanitize_query(value)
        eia == eia_from_footprint(footprint)
        suffix == IF eia # <<>>
                  THEN <<" ">> \o eia ELSE <<>>
        based == IF StartsWith(footprint, <<"R","_">>) /\ IsBareNumber(base)
                 THEN base \o <<"o","h","m">> ELSE base
    IN  IF _is_ferrite_bead THEN _sanitize_query(value) \o <<" ","f","e","r","r","i","t","e"," ","b","e","a","d">>
        ELSE IF \E k \in 1..Len(_CONNECTOR_PREFIXES) :
                    StartsWith(footprint, _CONNECTOR_PREFIXES[k])
             THEN _build_connector_query(value, footprint)
        ELSE IF StartsWith(footprint, <<"F","u","s","e","_">>)
             THEN base \o <<" ","f","u","s","e">> \o suffix
        ELSE IF eia # <<>>
             THEN based \o <<" ">> \o eia
        ELSE based

build_search_query(value, footprint) ==
    LET _is_ferrite_bead == StartsWith(footprint, <<"L","_">>) /\ Contains(value, <<"@">>)
        base == _sanitize_query(value)
        eia == eia_from_footprint(footprint)
        suffix == IF eia # <<>> /\ ~Contains(base, eia)
                  THEN <<" ">> \o eia ELSE <<>>
        based == IF StartsWith(footprint, <<"R","_">>) /\ IsBareNumber(base)
                 THEN base \o <<"o","h","m">> ELSE base
    IN  IF _is_ferrite_bead THEN _sanitize_query(value) \o <<" ","f","e","r","r","i","t","e"," ","b","e","a","d">>
        ELSE IF \E k \in 1..Len(_CONNECTOR_PREFIXES) :
                    StartsWith(footprint, _CONNECTOR_PREFIXES[k])
             THEN _build_connector_query(value, footprint)
        ELSE IF StartsWith(footprint, <<"F","u","s","e","_">>)
             THEN base \o <<" ","f","u","s","e">> \o suffix
        ELSE IF eia # <<>> /\ ~Contains(based, eia)
             THEN based \o <<" ">> \o eia
        ELSE based

(***************************************************************************)
(* The JLCPCB client's own query builder (jlcpcb/bom_lookup/client.py).    *)
(***************************************************************************)
client_sanitize_query(comment) ==
    LET q1 == Strip(comment)
        q2 == [k \in 1..Len(q1) |->
                  IF q1[k] \in {"@", "/", "\\"} THEN " " ELSE q1[k]]
    IN  Strip(CollapseSpaces(q2))

client_build_connector_query(comment, footprint) ==
    LET n == Len(footprint)
        \* JST_[A-Z]+_([\w-]+?)_\d+x\d+ : the shortest group that is
        \* followed by _<digits>x<digit>
        ja == Span(footprint, 5, UpperClass)
        jg == 5 + ja + 1
        jends == {e \in jg..n :
                     /\ \A k \in jg..e : footprint[k] \in WordDashClass
                     /\ MatchAt(footprint, e + 1, <<"_">>)
                     /\ LET d == Span(footprint, e + 2, Digits)
                        IN  /\ d >= 1
                            /\ MatchAt(footprint, e + 2 + d, <<"x">>)
                            /\ e + 3 + d <= n
                            /\ IsDigit(footprint[e + 3 + d])}
        jst == /\ StartsWith(footprint, <<"J","S","T","_">>)
               /\ ja >= 1
               /\ MatchAt(footprint, 5 + ja, <<"_">>)
               /\ jends # {}
        \* USB_C_Receptacle_\w+_([\w-]+) : the greedy \w+ gives back up to
        \* its last underscore that a group can follow
        cw == Span(footprint, 18, WordClass)
        cus == {u \in 19..(17 + cw) :
                   /\ footprint[u] = "_"
                   /\ u + 1 <= n
                   /\ footprint[u + 1] \in WordDashClass}
        usbc == StartsWith(footprint, <<"U","S","B","_","C","_","R","e","c","e","p","t","a","c","l","e","_">>) /\ cus # {}
        cu == SetMax(cus)
        \* USB_[A-Z]+_\w+_\w+_([\w-]+) : both \w+ greedy, the first one first
        ua == Span(footprint, 5, UpperClass)
        us == 5 + ua + 1
        uw == Span(footprint, us, WordClass)
        Second(u1) == {u2 \in (u1 + 2)..(us + uw - 1) :
                          /\ footprint[u2] = "_"
                          /\ u2 + 1 <= n
                          /\ footprint[u2 + 1] \in WordDashClass}
        firsts == {u1 \in (us + 1)..(us + uw - 1) :
                      footprint[u1] = "_" /\ Second(u1) # {}}
        usb == /\ StartsWith(footprint, <<"U","S","B","_">>)
               /\ ua >= 1
               /\ MatchAt(footprint, 5 + ua, <<"_">>)
               /\ firsts # {}
        uu == SetMax(Second(SetMax(firsts)))
        \* PinHeader_(\d+)x(\d+)_P([\d.]+mm)(?:_(Vertical|Horizontal))?
        r  == Span(footprint, 11, Digits)
        ix == 11 + r
        c  == Span(footprint, ix + 1, Digits)
        ip == ix + 1 + c
        p  == Span(footprint, ip + 2, Digits \cup {"."})
        im == ip + 2 + p
        pin == /\ StartsWith(footprint, <<"P","i","n","H","e","a","d","e","r","_">>)
               /\ r >= 1
               /\ MatchAt(footprint, ix, <<"x">>)
               /\ c >= 1
               /\ MatchAt(footprint, ip, <<"_","P">>)
               /\ p >= 1
               /\ MatchAt(footprint, im, <<"m","m">>)
        rows == SubSeq(footprint, 11, ix - 1)
        cols == SubSeq(footprint, ix + 1, ip - 1)
        pitch == SubSeq(footprint, ip + 2, im + 1)
        orient == IF MatchAt(footprint, im + 2, <<"_","V","e","r","t","i","c","a","l">>) THEN <<"V","e","r","t","i","c","a","l">>
                  ELSE IF MatchAt(footprint, im + 2, <<"_","H","o","r","i","z","o","n","t","a","l">>)
                       THEN <<"H","o","r","i","z","o","n","t","a","l">>
                  ELSE <<>>
        pins == ParseInt(rows) * ParseInt(cols)
        orient_word == IF orient # <<>> THEN <<" ">> \o Lower(orient) ELSE <<>>
    IN  IF jst THEN SubSeq(footprint, jg, SetMin(jends))
        ELSE IF usbc
             THEN SubSeq(footprint, cu + 1,
                         cu + Span(footprint, cu + 1, WordDashClass))
        ELSE IF usb
             THEN SubSeq(footprint, uu + 1,
                         uu + Span(footprint, uu + 1, WordDashClass))
        ELSE IF pin
             THEN pitch \o <<" ">> \o IntToText(pins) \o <<" ","p","i","n"," ","h","e","a","d","e","r">>
                      \o orient_word
        ELSE client_sanitize_query(comment)

_EIA_CODES_CLIENT ==
    { <<"0","2","0","1">>, <<"0","4","0","2">>, <<"0","6","0","3">>, <<"0","8","0","5">>, <<"1","2","0","6">>, <<"1","2","1","0">>, <<"1","8","1","2">>,
      <<"2","0","1","0">>, <<"2","5","1","2">>, <<"1","0","0","8">>, <<"1","8","0","6">>, <<"2","8","1","6">>, <<"0","5","0","4">> }

client_eia_from_footprint(footprint) ==
    LET codes == FindAll4(footprint, 1)
        hits  == {k \in 1..Len(codes) : codes[k] \in _EIA_CODES_CLIENT}
    IN  IF hits = {} THEN <<>> ELSE codes[SetMin(hits)]

client_CONNECTOR_PREFIXES ==
    <<<<"J","S","T","_">>, <<"U","S","B","_">>, <<"P","i","n","H","e","a","d","e","r","_">>, <<"C","o","n","n","_">>, <<"M","o","l","e","x","_">>>>

\* _build_search_query without the rule for a bare resistor value.
_build_search_query_NoOhm(comment, footprint) ==
    LET _is_ferrite_bead == StartsWith(footprint, <<"L","_">>) /\ Contains(comment, <<"@">>)
        base == client_sanitize_query(comment)
        eia == client_eia_from_footprint(footprint)
        suffix == IF eia # <<>> /\ ~Contains(base, eia)
                  THEN <<" ">> \o eia ELSE <<>>
        based == base
    IN  IF _is_ferrite_bead THEN client_sanitize_query(comment) \o <<" ","f","e","r","r","i","t","e"," ","b","e","a","d">>
        ELSE IF \E k \in 1..Len(client_CONNECTOR_PREFIXES) :
                    StartsWith(footprint, client_CONNECTOR_PREFIXES[k])
             THEN client_build_connector_query(comment, footprint)
        ELSE IF StartsWith(footprint, <<"F","u","s","e","_">>)
             THEN base \o <<" ","f","u","s","e">> \o suffix
        ELSE IF eia # <<>> /\ ~Contains(based, eia)
             THEN based \o <<" ">> \o eia
        ELSE based

_build_search_query(comment, footprint) ==
    LET _is_ferrite_bead == StartsWith(footprint, <<"L","_">>) /\ Contains(comment, <<"@">>)
        base == client_sanitize_query(comment)
        eia == client_eia_from_footprint(footprint)
        suffix == IF eia # <<>> /\ ~Contains(base, eia)
                  THEN <<" ">> \o eia ELSE <<>>
        based == IF StartsWith(footprint, <<"R","_">>) /\ IsBareNumber(base)
                 THEN base \o <<"o","h","m">> ELSE base
    IN  IF _is_ferrite_bead THEN client_sanitize_query(comment) \o <<" ","f","e","r","r","i","t","e"," ","b","e","a","d">>
        ELSE IF \E k \in 1..Len(client_CONNECTOR_PREFIXES) :
                    StartsWith(footprint, client_CONNECTOR_PREFIXES[k])
             THEN client_build_connector_query(comment, footprint)
        ELSE IF StartsWith(footprint, <<"F","u","s","e","_">>)
             THEN base \o <<" ","f","u","s","e">> \o suffix
        ELSE IF eia # <<>> /\ ~Contains(based, eia)
             THEN based \o <<" ">> \o eia
        ELSE based

(***************************************************************************)
(* State.                                                                  *)
(***************************************************************************)
VARIABLES
    min_stock,           \* bom_lookup's --min-stock option
    comment,             \* resolve_part's comment argument
    footprint,           \* resolve_part's footprint argument
    candidates,          \* resolve_part's candidates argument
    pc,                  \* the stage resolve_part is about to run
    in_stock,            \* the working list of steps 1 to 2
    candidates_to_rank,  \* the working list of steps 2 to 3
    selected,            \* the returned candidate: <<>> or <<c>>
    error,               \* the returned error: <<>> or <<e>>
    bom,                 \* generate_plan's bom.items
    max_concurrent,      \* generate_plan's max_concurrent argument
    max_vendors,         \* generate_plan's max_vendors argument
    vendors_filter,      \* generate_plan's vendors_filter argument
    on_progress,         \* the on_progress argument: one of ProgressCallbacks
    adapter,             \* the adapter argument: one of PartSearchPorts
    semaphore,           \* the asyncio.Semaphore of generate_plan
    task_pc,             \* per line: where its _process task stands
    task_error,          \* per line: the `error` local of _search_item
    searches,            \* per line: the searches sent to the adapter
    plan_items,          \* per line: <<>> or the ShoppingPlanItem built
    search_error,        \* per line: the error _search_item returned
    linkage,             \* per tagged Part object: the linkage fields written
    progress,            \* the calls on_progress has received
    answers,             \* per line: what the adapter answered, in order
    plan,                \* <<>> or the ShoppingPlan generate_plan returned
    plan_pc,             \* generate_plan: "idle", "gather", "returned", "raised"
    item_args,           \* a call of _search_item on its own: <<>> or its arguments
    item_return,         \* that call: <<>> or the (candidates, error) returned
    item_searches,       \* that call: the queries sent to adapter.search, in order
    query_args,          \* a query to build: <<>> or its (value, footprint)
    query_str,           \* _search_item's query_str: <<>> or the text
    client_query,        \* search_part's query: <<>> or the text
    failed_rows,         \* _ai_research_failed_parts: the rows given to the AI pass
    research_results,    \* _research_all_async: its `results` so far, in order
    updates,             \* per failed row: how many on_complete calls wrote to it
    research_pc          \* the AI pass: "idle", "research", "returned"

rvars == <<min_stock, comment, footprint, candidates, pc, in_stock,
           candidates_to_rank, selected, error>>

pvars == <<bom, max_concurrent, max_vendors, vendors_filter, on_progress, adapter,
           semaphore, task_pc, task_error, searches, plan_items, search_error,
           linkage, progress, answers, plan, plan_pc>>

svars == <<item_args, item_return, item_searches>>

qvars == <<query_args, query_str, client_query>>

avars == <<failed_rows, research_results, updates, research_pc>>

vars == <<rvars, pvars, svars, qvars, avars>>

\* No AI research pass is running.
ResearchIdle ==
    /\ failed_rows = <<>>
    /\ research_results = <<>>
    /\ updates = <<>>
    /\ research_pc = "idle"

\* No query is being built.
QueryIdle ==
    /\ query_args = <<>>
    /\ query_str = <<>>
    /\ client_query = <<>>

\* No call of _search_item on its own.
ItemIdle ==
    /\ item_args = <<>>
    /\ item_searches = <<>>
    /\ item_return = <<>>

\* No generate_plan call is in progress.
PlanIdle ==
    /\ bom = <<>>
    /\ max_concurrent = 0
    /\ max_vendors = 0
    /\ vendors_filter = <<>>
    /\ on_progress = "None"
    /\ adapter = "fresh"
    /\ semaphore = Semaphore(0)
    /\ task_pc = <<>>
    /\ task_error = <<>>
    /\ searches = <<>>
    /\ plan_items = <<>>
    /\ search_error = <<>>
    /\ linkage = <<>>
    /\ progress = <<>>
    /\ answers = <<>>
    /\ plan = <<>>
    /\ plan_pc = "idle"

\* No resolve_part call is in progress.
ResolveIdle ==
    /\ min_stock = MIN_STOCK
    /\ comment = <<>>
    /\ footprint = <<>>
    /\ candidates = <<>>
    /\ pc = "idle"
    /\ in_stock = <<>>
    /\ candidates_to_rank = <<>>
    /\ selected = <<>>
    /\ error = <<>>

\* The values of the --min-stock option of bom_lookup; MIN_STOCK is its
\* default.
MinStockOptions == {5, MIN_STOCK, 1000}

\* bom_lookup run with --min-stock in `options` reaches the call
\* resolve_part(comment, footprint, candidates) for one row, not yet started.
ResolveCall(options) ==
    /\ min_stock \in options
    /\ \E line \in BomLines :
           /\ comment = line.comment
           /\ footprint = line.footprint
           /\ candidates \in
                  SeqsUpTo({c \in Pool : c.lcsc_part \in line.results}, MaxCands)
    /\ pc = "start"
    /\ in_stock = <<>>
    /\ candidates_to_rank = <<>>
    /\ selected = <<>>
    /\ error = <<>>
    /\ PlanIdle
    /\ ItemIdle
    /\ QueryIdle
    /\ ResearchIdle

\* bom_lookup run without --min-stock.
ResolveInit == ResolveCall({MIN_STOCK})

\* bom_lookup run with any --min-stock.
LookupInit == ResolveCall(MinStockOptions)

Init == ResolveInit

Return(sel, err) ==
    /\ selected' = sel
    /\ error' = err
    /\ pc' = "done"


\* Mutant: an empty candidate list returns neither a part nor an error.
CheckEmpty_NoError ==
    /\ pc = "start"
    /\ IF candidates = <<>>
       THEN Return(<<>>, <<>>)
       ELSE pc' = "stock" /\ UNCHANGED <<selected, error>>
    /\ UNCHANGED <<min_stock, comment, footprint, candidates, in_stock, candidates_to_rank,
                   pvars, svars, qvars, avars>>

\* `if not candidates: return None, "No search results found"`
CheckEmpty ==
    /\ pc = "start"
    /\ IF candidates = <<>>
       THEN Return(<<>>, <<[kind |-> "NoResults"]>>)
       ELSE pc' = "stock" /\ UNCHANGED <<selected, error>>
    /\ UNCHANGED <<min_stock, comment, footprint, candidates, in_stock, candidates_to_rank,
                   pvars, svars, qvars, avars>>

\* Step 1: stock filter; an empty result is an error, with no fallback.
StockStage ==
    /\ pc = "stock"
    /\ in_stock' = StockFilter(candidates)
    /\ IF in_stock' = <<>>
       THEN Return(<<>>, <<[kind |-> "OutOfStock",
                            max_stock |-> MaxStock(candidates),
                            need |-> MIN_STOCK]>>)
       ELSE pc' = "category" /\ UNCHANGED <<selected, error>>
    /\ UNCHANGED <<min_stock, comment, footprint, candidates, candidates_to_rank,
                   pvars, svars, qvars, avars>>

\* Step 1.2: component-type category filter.
CategoryStage ==
    /\ pc = "category"
    /\ in_stock' = CategoryFilter(in_stock, footprint)
    /\ pc' = "ferrite"
    /\ UNCHANGED <<min_stock, comment, footprint, candidates, candidates_to_rank,
                   selected, error,
                   pvars, svars, qvars, avars>>

\* Step 1.5: ferrite bead category filter.
FerriteStage ==
    /\ pc = "ferrite"
    /\ in_stock' = FerriteFilter(in_stock, footprint, comment)
    /\ pc' = "package"
    /\ UNCHANGED <<min_stock, comment, footprint, candidates, candidates_to_rank,
                   selected, error,
                   pvars, svars, qvars, avars>>

\* Step 2: footprint filter; with an EIA code an empty result is an error.
PackageStage ==
    /\ pc = "package"
    /\ LET eia_code == eia_from_footprint(footprint)
           matched == PackageFilter(in_stock, eia_code)
       IN  IF eia_code # <<>>
           THEN IF matched = <<>>
                THEN /\ Return(<<>>, <<PackageError(in_stock, eia_code)>>)
                     /\ UNCHANGED candidates_to_rank
                ELSE /\ candidates_to_rank' = matched
                     /\ pc' = "pin_count"
                     /\ UNCHANGED <<selected, error>>
           ELSE /\ candidates_to_rank' = in_stock
                /\ pc' = "pin_count"
                /\ UNCHANGED <<selected, error>>
    /\ UNCHANGED <<min_stock, comment, footprint, candidates, in_stock,
                   pvars, svars, qvars, avars>>

\* Step 2.5: pin count sub-filter (pin-header footprints only).
PinCountStage ==
    /\ pc = "pin_count"
    /\ candidates_to_rank' = PinCountFilter(candidates_to_rank, footprint)
    /\ pc' = IF PinHeaderMatch(footprint) # <<>> THEN "orientation" ELSE "rank"
    /\ UNCHANGED <<min_stock, comment, footprint, candidates, in_stock, selected, error,
                   pvars, svars, qvars, avars>>

\* Step 2.5: orientation sub-filter.
OrientationStage ==
    /\ pc = "orientation"
    /\ candidates_to_rank' = OrientationFilter(candidates_to_rank, footprint)
    /\ pc' = "rank"
    /\ UNCHANGED <<min_stock, comment, footprint, candidates, in_stock, selected, error,
                   pvars, svars, qvars, avars>>

\* Step 3: rank and select.
RankStage ==
    /\ pc = "rank"
    /\ Return(<<SelectBest(candidates_to_rank, footprint, comment)>>, <<>>)
    /\ UNCHANGED <<min_stock, comment, footprint, candidates, in_stock, candidates_to_rank,
                   pvars, svars, qvars, avars>>

Next ==
    \/ CheckEmpty
    \/ StockStage
    \/ CategoryStage
    \/ FerriteStage
    \/ PackageStage
    \/ PinCountStage
    \/ OrientationStage
    \/ RankStage

Spec == Init /\ [][Next]_vars

SpecLookup == LookupInit /\ [][Next]_vars

(***************************************************************************)
(* generate_plan: one task per BOM line behind an asyncio semaphore.  A    *)
(* task runs without interruption from one await to the next, so each      *)
(* action is the code between two awaits.                                  *)
(***************************************************************************)
Lines == 1..Len(bom)

\* The ids of the parts of a result list.
PartIdsOf(results) == [k \in 1..Len(results) |-> results[k].id]

\* What the tail of _search_item retains, for every result list, BOM line,
\* vendors filter and max_vendors of the model, computed once.
RetainedTable ==
    [ids \in {PartIdsOf(r) : r \in SearchResponses}, b \in 1..Len(BomItems),
     f \in VendorFilters, n \in 1..MaxVendors |->
        RetainedCandidates([k \in 1..Len(ids) |-> Parts[ids[k]]],
                           BomItems[b].footprint, f, n)]

\* on_progress of a call: None, a callable that returns, or a callable that
\* raises.
ProgressCallbacks == {"None", "returns", "raises"}

\* callable(on_progress)
callable(f) == f # "None"

\* ShoppingPlanItem(bom_item=bom_item, candidates=candidates, error=err):
\* the class declares the fields bom_item and candidates.
ShoppingPlanItem(bom_item, cands) == [bom_item |-> bom_item, candidates |-> cands]

\* The implementations of PartSearchPort.search: "fresh" builds new Part
\* objects for every search, as OemSecretsAPIAdapter does with _parse_part;
\* "stored" hands out the same Part objects to every search that finds the
\* part, as an adapter that keeps its results does.
PartSearchPorts == {"fresh", "stored"}

\* The Part object that stands for part `id` in the results of line i.
PartObject(i, id) == IF adapter = "fresh" THEN <<i, id>> ELSE <<0, id>>

\* The Part objects of the candidates of line i.
PartObjects(i, cands) == {PartObject(i, cands[k].id) : k \in 1..Len(cands)}

\* The linkage fields _process writes on a candidate.
Linkage(item) ==
    [references |-> item.references, value |-> item.value,
     footprint |-> item.footprint]

\* A call generate_plan(bom, adapter, max_vendors, vendors_filter,
\* on_progress, max_concurrent) up to `await asyncio.gather(*tasks)`: the
\* semaphore is built and the tasks are created, none has run yet.
PlanCall(ports, callbacks) ==
    /\ \E n \in 0..NumLines : bom = [i \in 1..n |-> BomItemAt(i)]
    /\ max_concurrent \in 0..MaxConc
    /\ max_vendors \in 1..MaxVendors
    /\ vendors_filter \in VendorFilters
    /\ on_progress \in callbacks
    /\ adapter \in ports
    /\ semaphore = Semaphore(max_concurrent)
    /\ task_pc = [i \in Lines |-> "new"]
    /\ task_error = [i \in Lines |-> <<>>]
    /\ searches = [i \in Lines |-> <<>>]
    /\ plan_items = [i \in Lines |-> <<>>]
    /\ search_error = [i \in Lines |-> <<>>]
    /\ linkage = <<>>
    /\ progress = <<>>
    /\ answers = [i \in Lines |-> <<>>]
    /\ plan = <<>>
    /\ plan_pc = "gather"
    /\ ResolveIdle
    /\ ItemIdle
    /\ QueryIdle
    /\ ResearchIdle

\* A call with the adapter of the repository, OemSecretsAPIAdapter, and any
\* on_progress.
PlanInit == PlanCall({"fresh"}, ProgressCallbacks)

\* A call with any implementation of PartSearchPort and no on_progress (the
\* callback plays no part in what the tasks write on the parts).
PlanInitAnyPort == PlanCall(PartSearchPorts, {"None"})

\* The start of _search_item in task i: the MPN search when the line has a
\* part number, the value query otherwise.
EnterSearch(i) ==
    IF bom[i].part_number # <<>>
    THEN /\ task_pc' = [task_pc EXCEPT ![i] = "mpn_search"]
         /\ searches' = [searches EXCEPT ![i] = Append(@, "mpn")]
    ELSE /\ task_pc' = [task_pc EXCEPT ![i] = "value_search"]
         /\ searches' = [searches EXCEPT ![i] = Append(@, "value")]

\* The first step of task i, in the order gather created the tasks:
\* `async with semaphore` takes a permit and the first search is sent, or
\* the task joins the semaphore's queue.  A search may answer before a later
\* task has started (an adapter that answers without suspending).
StartTask(i) ==
    /\ plan_pc = "gather"
    /\ task_pc[i] = "new"
    /\ \A j \in 1..(i - 1) : task_pc[j] # "new"
    /\ IF ~locked(semaphore)
       THEN /\ semaphore' = [semaphore EXCEPT !.value = @ - 1]
            /\ EnterSearch(i)
       ELSE /\ semaphore' = [semaphore EXCEPT !.waiters = Append(@, i)]
            /\ task_pc' = [task_pc EXCEPT ![i] = "waiting"]
            /\ UNCHANGED searches
    /\ UNCHANGED <<bom, max_concurrent, max_vendors, vendors_filter, on_progress,
                   adapter,
                   task_error, plan_items, search_error, linkage, progress,
                   answers, plan, plan_pc, rvars, svars, qvars, avars>>

\* Task i resumes in Semaphore.acquire() after release() handed it a permit;
\* woken tasks resume in the order they were woken.
ResumeTask(i) ==
    /\ plan_pc = "gather"
    /\ task_pc[i] = "waiting"
    /\ i \in semaphore.done
    /\ semaphore.waiters[1] = i
    /\ semaphore' = acquire_resumed(semaphore, i)
    /\ EnterSearch(i)
    /\ UNCHANGED <<bom, max_concurrent, max_vendors, vendors_filter, on_progress,
                   adapter,
                   task_error, plan_items, search_error, linkage, progress,
                   answers, plan, plan_pc, rvars, svars, qvars, avars>>

\* The value query of task i is sent after the MPN search gave nothing.
SendValueQuery(i, err) ==
    /\ task_pc' = [task_pc EXCEPT ![i] = "value_search"]
    /\ searches' = [searches EXCEPT ![i] = Append(@, "value")]
    /\ task_error' = [task_error EXCEPT ![i] = err]
    /\ UNCHANGED <<semaphore, plan_items, search_error, linkage, progress,
                   plan_pc>>

\* Mutant: on_progress receives the number of lines finished so far.
ProgressArgs_DoneCount(i) == <<Len(progress) + 1, Len(bom)>>

\* The arguments of on_progress in the task of line i: (idx + 1, len(bom.items)),
\* idx the index of the line counted from 0.
ProgressArgs(i) == <<i, Len(bom)>>

\* Mutant: one call of on_progress for every search the line sent.
ProgressCalls_PerSearch(i) ==
    IF callable(on_progress)
    THEN [k \in 1..Len(searches[i]) |-> ProgressArgs(i)]
    ELSE <<>>

\* The calls of on_progress the task of line i makes once _search_item has
\* returned: one if on_progress is callable, none otherwise.
ProgressCalls(i) ==
    IF callable(on_progress) THEN <<ProgressArgs(i)>> ELSE <<>>

\* _search_item returns (cands, err) in task i: the `async with` block is
\* left and the permit released, the candidates are tagged with the line's
\* linkage fields, on_progress is called, and the plan item is built.  An
\* exception of on_progress leaves _process, and gather raises it in
\* generate_plan, which has no handler: the call ends without a plan.
FinishTask(i, cands, err) ==
    /\ semaphore' = release(semaphore)
    /\ task_pc' = [task_pc EXCEPT
                      ![i] = IF on_progress = "raises" THEN "failed" ELSE "done"]
    /\ plan_pc' = IF on_progress = "raises" THEN "raised" ELSE plan_pc
    /\ task_error' = [task_error EXCEPT ![i] = err]
    /\ search_error' = [search_error EXCEPT ![i] = err]
    /\ linkage' = IF cands = <<>>
                  THEN linkage
                  ELSE [o \in DOMAIN linkage \cup PartObjects(i, cands) |->
                           IF o \in PartObjects(i, cands)
                           THEN Linkage(bom[i])
                           ELSE linkage[o]]
    /\ progress' = progress \o ProgressCalls(i)
    /\ plan_items' = IF on_progress = "raises"
                     THEN plan_items
                     ELSE [plan_items EXCEPT
                              ![i] = <<ShoppingPlanItem(bom[i], cands)>>]
    /\ UNCHANGED searches

\* The results of _search_item for a search that returned `results`.
FinishWithResults(i, results) ==
    IF results = <<>>
    THEN FinishTask(i, <<>>, <<<<"N","o"," ","r","e","s","u","l","t","s"," ","r","e","t","u","r","n","e","d"," ","b","y"," ","d","i","s","t","r","i","b","u","t","o","r"," ","A","P","I">>>>)
    ELSE FinishTask(i, RetainedTable[PartIdsOf(results), BomIndex(i),
                                     vendors_filter, max_vendors], <<>>)

\* adapter.search returned `results` to task i.
Answered(i, results) ==
    answers' = [answers EXCEPT ![i] =
                   Append(@, [raised |-> FALSE, exc |-> <<>>, results |-> results])]

\* adapter.search raised an exception of text `exc` in task i.
Raised(i, exc) ==
    answers' = [answers EXCEPT ![i] =
                   Append(@, [raised |-> TRUE, exc |-> exc, results |-> <<>>])]

\* The MPN search of task i returns.
MpnSearchReturns(i) ==
    /\ plan_pc = "gather"
    /\ task_pc[i] = "mpn_search"
    /\ \E results \in SearchResponses :
           /\ Answered(i, results)
           /\ IF results # <<>>
              THEN FinishWithResults(i, results)
              ELSE SendValueQuery(i, <<>>)
    /\ UNCHANGED <<bom, max_concurrent, max_vendors, vendors_filter, on_progress,
                   adapter,
                   plan, rvars, svars, qvars, avars>>

\* Mutant: an exception of the MPN search ends _search_item with the error,
\* without the value query.
MpnSearchRaises_NoFallback(i) ==
    /\ plan_pc = "gather"
    /\ task_pc[i] = "mpn_search"
    /\ \E exc \in SearchFailures :
           /\ Raised(i, exc)
           /\ FinishTask(i, <<>>, <<<<"M","P","N"," ","s","e","a","r","c","h"," ","f","a","i","l","e","d",":"," ">> \o exc>>)
    /\ UNCHANGED <<bom, max_concurrent, max_vendors, vendors_filter, on_progress,
                   adapter,
                   plan, rvars, svars, qvars, avars>>

\* The MPN search of task i raises: the error is kept, the value query sent.
MpnSearchRaises(i) ==
    /\ plan_pc = "gather"
    /\ task_pc[i] = "mpn_search"
    /\ \E exc \in SearchFailures :
           /\ Raised(i, exc)
           /\ SendValueQuery(i, <<<<"M","P","N"," ","s","e","a","r","c","h"," ","f","a","i","l","e","d",":"," ">> \o exc>>)
    /\ UNCHANGED <<bom, max_concurrent, max_vendors, vendors_filter, on_progress,
                   adapter,
                   plan, rvars, svars, qvars, avars>>

\* The value query of task i returns: an earlier MPN error is cleared.
ValueSearchReturns(i) ==
    /\ plan_pc = "gather"
    /\ task_pc[i] = "value_search"
    /\ \E results \in SearchResponses :
           /\ Answered(i, results)
           /\ FinishWithResults(i, results)
    /\ UNCHANGED <<bom, max_concurrent, max_vendors, vendors_filter, on_progress,
                   adapter,
                   plan, rvars, svars, qvars, avars>>

\* Mutant: the exception of the value query is not caught; it leaves
\* _search_item and _process, and gather raises it in generate_plan.
ValueSearchRaises_Uncaught(i) ==
    /\ plan_pc = "gather"
    /\ task_pc[i] = "value_search"
    /\ \E exc \in SearchFailures : Raised(i, exc)
    /\ semaphore' = release(semaphore)
    /\ task_pc' = [task_pc EXCEPT ![i] = "failed"]
    /\ plan_pc' = "raised"
    /\ UNCHANGED <<bom, max_concurrent, max_vendors, vendors_filter, on_progress,
                   adapter,
                   task_error, searches, plan_items, search_error, linkage,
                   progress, plan, rvars, svars, qvars, avars>>

\* The value query of task i raises: `return [], str(exc)`.
ValueSearchRaises(i) ==
    /\ plan_pc = "gather"
    /\ task_pc[i] = "value_search"
    /\ \E exc \in SearchFailures :
           /\ Raised(i, exc)
           /\ FinishTask(i, <<>>, <<exc>>)
    /\ UNCHANGED <<bom, max_concurrent, max_vendors, vendors_filter, on_progress,
                   adapter,
                   plan, rvars, svars, qvars, avars>>

\* Mutant: the results in the order the tasks finished, which is the order
\* of the calls of on_progress.
gather_AsCompleted(results) ==
    IF callable(on_progress)
    THEN [k \in 1..Len(progress) |-> results[progress[k][1]][1]]
    ELSE [i \in 1..Len(results) |-> results[i][1]]

\* asyncio.gather(*tasks): the results of the tasks, in the order of the
\* tasks given, whatever the order they finished in.
gather(results) == [i \in 1..Len(results) |-> results[i][1]]

\* ShoppingPlan(bom_file, max_vendors, vendors_filter, items)
ShoppingPlan(items) ==
    [max_vendors |-> max_vendors, vendors_filter |-> vendors_filter,
     items |-> items]

\* gather has every task's item: generate_plan returns the ShoppingPlan.
ReturnPlan ==
    /\ plan_pc = "gather"
    /\ \A i \in Lines : task_pc[i] = "done"
    /\ plan' = <<ShoppingPlan(gather(plan_items))>>
    /\ plan_pc' = "returned"
    /\ UNCHANGED <<bom, max_concurrent, max_vendors, vendors_filter, on_progress,
                   adapter,
                   semaphore, task_pc, task_error, searches, plan_items,
                   search_error, linkage, progress, answers, rvars, svars, qvars, avars>>

NextPlan ==
    \/ \E i \in Lines : StartTask(i)
    \/ \E i \in Lines : ResumeTask(i)
    \/ \E i \in Lines : MpnSearchReturns(i)
    \/ \E i \in Lines : MpnSearchRaises(i)
    \/ \E i \in Lines : ValueSearchReturns(i)
    \/ \E i \in Lines : ValueSearchRaises(i)
    \/ ReturnPlan

SpecPlan == PlanInit /\ [][NextPlan]_vars

SpecPlanAnyPort == PlanInitAnyPort /\ [][NextPlan]_vars

\* A call with OemSecretsAPIAdapter and an on_progress that, if given,
\* returns.
PlanInitFair == PlanCall({"fresh"}, {"None", "returns"})

\* The event loop runs every task that is ready to run, and every search
\* that was sent eventually returns or raises.
PlanFairness ==
    /\ \A i \in 1..NumLines :
           /\ WF_vars(i \in Lines /\ StartTask(i))
           /\ WF_vars(i \in Lines /\ ResumeTask(i))
           /\ WF_vars(i \in Lines /\ (MpnSearchReturns(i) \/ MpnSearchRaises(i)))
           /\ WF_vars(i \in Lines /\ (ValueSearchReturns(i) \/ ValueSearchRaises(i)))
    /\ WF_vars(ReturnPlan)

SpecPlanFair == PlanInitFair /\ [][NextPlan]_vars /\ PlanFairness

----------------------------------------------------------------------------
\* _search_item on its own, from the point where a search has answered.

\* The parts of the searches: equal and different stock, known and unknown
\* price, in stock and not, from several distributors, in three sizes, a
\* ferrite bead, a resistor and a fuse among them.
ItemParts ==
    << Part(11, <<"C","L","0","5","B","1","0","4","K","O","5","N","N","N","C">>, <<"D","i","g","i","K","e","y">>, <<500>>, <<10>>, <<"0","4","0","2">>),
       Part(12, <<"C","C","0","4","0","2","K","R","X","7","R","7","B","B","1","0","4">>, <<"M","o","u","s","e","r">>, <<500>>, <<5>>, <<"0","4","0","2">>),
       Part(13, <<"G","R","M","1","5","5","R","7","1","C","1","0","4","K","A","8","8","D">>, <<"D","i","g","i","-","K","e","y"," ","E","l","e","c","t","r","o","n","i","c","s">>, <<500>>, <<>>, <<"0","4","0","2">>),
       Part(14, <<"G","R","M","1","8","8","R","7","1","H","1","0","4","K","A","9","3","D">>, <<"M","o","u","s","e","r">>, <<9000>>, <<20>>, <<"0","6","0","3">>),
       Part(15, <<"C","0","4","0","2","C","1","0","4","K","4","R","A","C","T","U">>, <<"M","o","u","s","e","r">>, <<0>>, <<1>>, <<"0","4","0","2">>),
       Part(16, <<"0","4","0","2","B","1","0","4","K","1","6","0","C","T">>, <<>>, <<>>, <<>>, <<"0","4","0","2">>),
       Part(17, <<"B","L","M","1","8","P","G","1","2","1","S","N","1","D">>, <<"M","o","u","s","e","r">>, <<300>>, <<3>>, <<>>),
       Part(18, <<"0","4","6","7","0","0","1",".","5","N","R">>, <<"D","i","g","i","K","e","y">>, <<300>>, <<50>>, <<"1","2","0","6">>),
       Part(19, <<"R","C","1","2","0","6","F","R","-","0","7","1","0","K","L">>, <<"M","o","u","s","e","r">>, <<100>>, <<2>>, <<"1","2","0","6">>) >>

\* Lists of at most n different parts of ItemParts, in any order.
RECURSIVE ItemResults(_)
ItemResults(n) ==
    IF n = 0 THEN { <<>> }
    ELSE LET shorter == ItemResults(n - 1)
             longer  == { x \in shorter \X (1..Len(ItemParts)) :
                              /\ Len(x[1]) = n - 1
                              /\ \A j \in 1..Len(x[1]) : x[1][j] # ItemParts[x[2]] }
         IN  shorter \cup { Append(x[1], ItemParts[x[2]]) : x \in longer }

\* str(exc) of the exceptions a search raises; asyncio.TimeoutError(), which
\* OemSecretsAPIAdapter.search re-raises, has the empty text.
ExceptionTexts == { <<"t","i","m","e","o","u","t">>, <<>> }

\* How the part-number search of a call ends: not made (no part number),
\* raised, returned nothing, or returned the parts.
MpnOutcomes == {"raised", "empty", "parts"}

\* The arguments of the call and what the searches answered.  `results` and
\* `raised` are the answer of the last search made: the part-number search
\* when it returned parts, the value query otherwise.
ItemCall(items, lists, counts, texts, firsts) ==
    /\ \E results \in lists, b \in items, n \in counts, f \in VendorFilters,
          x \in {<<>>} \cup {<<t>> : t \in texts},
          mpn \in firsts \cup {"skipped"} :
           /\ x # <<>> => results = <<>>
           /\ mpn = "skipped" <=> BomItems[b].part_number = <<>>
           /\ mpn = "parts" => results # <<>>
           /\ item_args = <<[results |-> results, raised |-> x, mpn |-> mpn,
                             bom_item |-> BomItems[b],
                             max_vendors |-> n, vendors_filter |-> f]>>
    /\ item_return = <<>>
    /\ item_searches = <<>>
    /\ ResolveIdle
    /\ PlanIdle
    /\ QueryIdle
    /\ ResearchIdle

\* The steps after the searches, on what the value query answered: a search
\* that answers, called with a positive max_vendors; a part-number search,
\* where there is one, returned nothing.
ItemInit ==
    ItemCall({1, 3, 4}, ItemResults(MaxResults), 1..MaxVendors, {}, {"empty"})

\* The whole of _search_item on the answer of one part at most: any outcome
\* of the two searches and any max_vendors the --max-vendors option accepts.
ItemInitAnyCall ==
    ItemCall({1, 3, 5}, ItemResults(1), 0..MaxVendors, ExceptionTexts,
             MpnOutcomes)

\* Mutant: the part-number search is sent again instead of the value query.
SentQueries_RetryMpn(a) ==
    IF a.bom_item.part_number = <<>>
    THEN <<build_search_query(a.bom_item.value, a.bom_item.footprint)>>
    ELSE IF a.mpn = "parts"
         THEN <<a.bom_item.part_number>>
    ELSE <<a.bom_item.part_number, a.bom_item.part_number>>

\* The queries _search_item sends: the part number if there is one, then,
\* `if not results`, the query built from value and footprint.
SentQueries(a) ==
    IF a.bom_item.part_number = <<>>
    THEN <<build_search_query(a.bom_item.value, a.bom_item.footprint)>>
    ELSE IF a.mpn = "parts"
         THEN <<a.bom_item.part_number>>
    ELSE <<a.bom_item.part_number,
           build_search_query(a.bom_item.value, a.bom_item.footprint)>>

\* The searches are sent; then `return [], str(exc)` when the value query
\* raised, else
\* `if not results: return [], "No results ..."`, else filter, rank and cut.
SearchItemReturns ==
    /\ item_args # <<>>
    /\ item_return = <<>>
    /\ item_searches' = SentQueries(item_args[1])
    /\ LET a == item_args[1]
       IN  item_return' =
               IF a.raised # <<>>
               THEN << [candidates |-> <<>>, error |-> <<a.raised[1]>>] >>
               ELSE IF a.results = <<>>
               THEN << [candidates |-> <<>>, error |-> <<<<"N","o"," ","r","e","s","u","l","t","s"," ","r","e","t","u","r","n","e","d"," ","b","y"," ","d","i","s","t","r","i","b","u","t","o","r"," ","A","P","I">>>>] >>
               ELSE << [candidates |-> RetainedCandidates(a.results, a.bom_item.footprint,
                                                          a.vendors_filter, a.max_vendors),
                        error |-> <<>>] >>
    /\ UNCHANGED <<item_args, rvars, pvars, qvars, avars>>

NextItem == SearchItemReturns

SpecItem == ItemInit /\ [][NextItem]_vars

SpecItemAnyCall == ItemInitAnyCall /\ [][NextItem]_vars

(***************************************************************************)
(* The two query builders on one (value, footprint) pair:                  *)
(* build_search_query as _search_item calls it, _build_search_query as     *)
(* search_part calls it.                                                   *)
(***************************************************************************)
QueryValues ==
    { <<"1","0","0","n","F">>, <<"2","7">>, <<"4",".","7">>, <<"1",".","5","A">>, <<"1","2","0","R","@","1","0","0","M","H","z">>, <<"1","0","u","F","/","1","0","V">>,
      <<"0","4","0","2"," ","1","0","0","n","F">>, <<" ","4",".","7","k"," ">>, <<"T","P","S","6","3","0","1","0">>, <<"1","2","0","6"," ","f","u","s","e">>, <<"1","0","6","0","3">>,
      <<"1", "\\", "2", " ", " ", "W">> }

QueryFootprints ==
    { <<"C","_","0","4","0","2","_","1","0","0","5","M","e","t","r","i","c">>, <<"R","_","0","4","0","2","_","1","0","0","5","M","e","t","r","i","c">>, <<"R","_","0","6","0","3","_","1","6","0","8","M","e","t","r","i","c">>,
      <<"F","u","s","e","_","1","2","0","6","_","3","2","1","6","M","e","t","r","i","c">>, <<"L","_","0","6","0","3","_","1","6","0","8","M","e","t","r","i","c">>,
      <<"P","i","n","H","e","a","d","e","r","_","1","x","0","4","_","P","2",".","5","4","m","m","_","V","e","r","t","i","c","a","l">>, <<"P","i","n","H","e","a","d","e","r","_","2","x","0","5","_","P","1",".","2","7","m","m">>,
      <<"J","S","T","_","G","H","_","S","M","0","8","B","-","G","H","S","-","T","B","_","1","x","0","8","-","1","M","P","_","P","1",".","2","5","m","m","_","H","o","r","i","z","o","n","t","a","l">>,
      <<"U","S","B","_","C","_","R","e","c","e","p","t","a","c","l","e","_","H","R","O","_","T","Y","P","E","-","C","-","3","1","-","M","-","1","2">>,
      <<"U","S","B","_","A","_","R","e","c","e","p","t","a","c","l","e","_","A","m","p","h","e","n","o","l","_","1","0","1","1","8","1","9","4">>, <<"C","o","n","n","_","0","1","x","0","4">>, <<"C","o","n","n","_","1","2","0","6","_","P","a","d","s">>,
      <<"V","Q","F","N","-","1","6","-","1","E","P","_","3","x","3","m","m">> }

QueryInit ==
    /\ query_args \in {<<[value |-> v, footprint |-> f]>> :
                           v \in QueryValues, f \in QueryFootprints}
    /\ query_str = <<>>
    /\ client_query = <<>>
    /\ ResolveIdle
    /\ PlanIdle
    /\ ItemIdle
    /\ ResearchIdle

\* query_str = build_search_query(bom_item_value, bom_item_footprint)
BuildSearchQuery ==
    /\ query_args # <<>>
    /\ query_str = <<>>
    /\ query_str' = <<build_search_query(query_args[1].value,
                                          query_args[1].footprint)>>
    /\ UNCHANGED <<query_args, client_query, rvars, pvars, svars, avars>>

\* query = _build_search_query(comment, footprint)
ClientBuildSearchQuery ==
    /\ query_args # <<>>
    /\ client_query = <<>>
    /\ client_query' = <<_build_search_query(query_args[1].value,
                                              query_args[1].footprint)>>
    /\ UNCHANGED <<query_args, query_str, rvars, pvars, svars, avars>>

NextQuery ==
    \/ BuildSearchQuery
    \/ ClientBuildSearchQuery

SpecQuery == QueryInit /\ [][NextQuery]_vars

(***************************************************************************)
(* The AI research pass of bom_lookup (_ai_research_failed_parts,          *)
(* _research_all_async).                                                   *)
(***************************************************************************)
\* BomLookupRow(comment, designator, footprint, selected, error)
BomLookupRow(cmt, designator, fp, sel, err) ==
    [comment |-> cmt, designator |-> designator, footprint |-> fp,
     selected |-> sel, error |-> err]

\* Rows the first lookup left unresolved.
UnresolvedRows ==
    << BomLookupRow(<<"1","0","0","n","F">>, <<"C","1">>, <<"C","_","0","4","0","2","_","1","0","0","5","M","e","t","r","i","c">>, <<>>,
                    <<<<"N","o"," ","s","e","a","r","c","h"," ","r","e","s","u","l","t","s"," ","f","o","u","n","d">>>>),
       BomLookupRow(<<"1","0","0","n","F">>, <<"C","7">>, <<"C","_","0","6","0","3","_","1","6","0","8","M","e","t","r","i","c">>, <<>>,
                    <<<<"A","l","l"," ","c","a","n","d","i","d","a","t","e","s"," ","o","u","t"," ","o","f"," ","s","t","o","c","k">>>>),
       BomLookupRow(<<"1","0","k">>, <<"R","1">>, <<"R","_","0","6","0","3","_","1","6","0","8","M","e","t","r","i","c">>, <<>>,
                    <<<<"N","o"," ","s","e","a","r","c","h"," ","r","e","s","u","l","t","s"," ","f","o","u","n","d">>>>) >>

\* ResearchResult(jlcpcb_part_number, success, error)
ResearchResult(part, success, err) ==
    [jlcpcb_part_number |-> part, success |-> success, error |-> err]

\* What the agent loop brings for a request: a part, success without a part
\* number, failure with a message, failure without one.
ResearchResults ==
    { ResearchResult(<<<<"C","1","5","2","5">>>>, TRUE, <<>>),
      ResearchResult(<<>>, TRUE, <<>>),
      ResearchResult(<<>>, FALSE, <<<<"m","a","x"," ","i","t","e","r","a","t","i","o","n","s"," ","r","e","a","c","h","e","d">>>>),
      ResearchResult(<<>>, FALSE, <<>>) }

\* The values of JlcpcbSearchResult.source: Literal["jlcpcb", "lcsc"].
SourceValues == {"jlcpcb", "lcsc"}

\* failed_rows = [r for r in rows if not r.is_resolved], not empty; the
\* requests are built from it, one per row, in order.
ResearchInit ==
    /\ \E S \in (SUBSET (1..Len(UnresolvedRows))) \ {{}} :
           LET IsIn(k) == k \in S
               idx == SelectSeq([k \in 1..Len(UnresolvedRows) |-> k], IsIn)
           IN  failed_rows = [j \in 1..Len(idx) |-> UnresolvedRows[idx[j]]]
    /\ research_results = <<>>
    /\ updates = [j \in 1..Len(failed_rows) |-> 0]
    /\ research_pc = "research"
    /\ ResolveIdle
    /\ PlanIdle
    /\ ItemIdle
    /\ QueryIdle

\* row = next(r for r in failed_rows if r.comment == request.comment), for
\* the request built from row k.
RowOfRequest(k) ==
    SetMin({j \in 1..Len(failed_rows) :
                failed_rows[j].comment = failed_rows[k].comment})

\* One turn of `for request in requests`: the agent loop brings a result,
\* it is appended, and on_complete(request, result) writes to the row it
\* finds.  For a part, JlcpcbSearchResult(..., source="ai") is built first:
\* the value is not one of the field's, pydantic raises, the exception
\* leaves on_complete and the loop, and the session ends with the message
\* of the outer handler.
ResearchNext ==
    /\ research_pc = "research"
    /\ Len(research_results) < Len(failed_rows)
    /\ \E result \in ResearchResults :
           LET k == Len(research_results) + 1
               r == RowOfRequest(k)
               found == result.success /\ result.jlcpcb_part_number # <<>>
               text == IF result.error # <<>> THEN result.error[1]
                       ELSE <<"A","I"," ","r","e","s","e","a","r","c","h"," ","c","o","u","l","d"," ","n","o","t"," ","f","i","n","d"," ","s","u","i","t","a","b","l","e"," ","p","a","r","t">>
           IN  /\ research_results' = Append(research_results, result)
               /\ IF found /\ "ai" \notin SourceValues
                  THEN /\ research_pc' = "returned"
                       /\ UNCHANGED <<failed_rows, updates>>
                  ELSE /\ failed_rows' =
                              [failed_rows EXCEPT ![r] =
                                  IF found
                                  THEN [@ EXCEPT
                                           !.selected =
                                               <<[lcsc_part |-> result.jlcpcb_part_number[1],
                                                  source |-> "ai"]>>,
                                           !.error = <<>>]
                                  ELSE [@ EXCEPT !.error = <<text>>]]
                       /\ updates' = [updates EXCEPT ![r] = @ + 1]
                       /\ UNCHANGED research_pc
    /\ UNCHANGED <<rvars, pvars, svars, qvars>>

\* The loop is over: research_all_components returns.
ResearchReturns ==
    /\ research_pc = "research"
    /\ Len(research_results) = Len(failed_rows)
    /\ research_pc' = "returned"
    /\ UNCHANGED <<failed_rows, research_results, updates, rvars, pvars, svars,
                   qvars>>

NextResearch ==
    \/ ResearchNext
    \/ ResearchReturns

SpecResearch == ResearchInit /\ [][NextResearch]_vars

(***************************************************************************)
(* Properties of resolve_part and _score_candidate.                        *)
(***************************************************************************)
Done == pc = "done"

Resolved == pc = "done" /\ selected # <<>>

\* The elements of a list.
Elems(seq) == {seq[k] : k \in 1..Len(seq)}

InStock(c) == c.stock >= MIN_STOCK

EiaCode == eia_from_footprint(footprint)

CategoryKeywords == _expected_category_keywords(footprint)

Score(c) == _score_candidate(c, footprint, comment)

\* C1: for a footprint with an EIA code, a candidate returned as selected
\* has a package field that matches that code; a wrong-size or package-less
\* part is never returned, whatever its stock, price or score.
C1_ResolvedPackageMatches ==
    (Resolved /\ EiaCode # <<>>)
        => package_matches_eia(selected[1].package, EiaCode)

\* A resolved call in which an in-stock candidate of the wrong or unknown
\* package outscored the selected one.
C1_Witness ==
    /\ Resolved
    /\ EiaCode # <<>>
    /\ \E c \in Elems(in_stock) :
           /\ ~package_matches_eia(c.package, EiaCode)
           /\ Score(c) > Score(selected[1])

\* C2: a selected candidate has stock >= MIN_STOCK, and no stage after the
\* stock stage holds a candidate below MIN_STOCK in its working list.
C2_StockFloor ==
    /\ \A c \in Elems(in_stock) \cup Elems(candidates_to_rank) : InStock(c)
    /\ Resolved => selected[1].stock >= MIN_STOCK

\* A resolved call whose input held a candidate below MIN_STOCK.
C2_Witness ==
    /\ Resolved
    /\ \E c \in Elems(candidates) : ~InStock(c)

ExpectedPins ==
    LET ph_m == PinHeaderMatch(footprint)
    IN  IF ph_m = <<>> THEN 0 ELSE ParseInt(ph_m[1]) * ParseInt(ph_m[2])

C6_OutOfStockReportsMax ==
    (/\ Done
     /\ candidates # <<>>
     /\ \A c \in Elems(candidates) : c.stock < MIN_STOCK)
        => /\ selected = <<>>
           /\ in_stock = <<>>
           /\ error # <<>>
           /\ error[1].kind = "OutOfStock"
           /\ error[1].need = MIN_STOCK
           /\ \A c \in Elems(candidates) : c.stock <= error[1].max_stock
           /\ \E c \in Elems(candidates) : c.stock = error[1].max_stock

\* An out-of-stock failure over two candidates of different stock.
C6_Witness ==
    /\ Done
    /\ error # <<>>
    /\ error[1].kind = "OutOfStock"
    /\ \E c, d \in Elems(candidates) : c.stock < d.stock

IsPoorDielectric(c) ==
    /\ HasPoorDielectric(Upper(c.description))
    /\ ~HasStableDielectric(Upper(c.description))

IsStableDielectric(c) == HasStableDielectric(Upper(c.description))

\* C8: on a capacitor footprint a candidate with a poor dielectric code
\* scores lower than, and is never selected over, a candidate with a stable
\* dielectric code, whatever their stock and price.
C8_PoorNeverBeatsStable ==
    (Resolved /\ StartsWith(footprint, <<"C","_">>))
        => \A a, b \in Elems(candidates_to_rank) :
               (IsPoorDielectric(a) /\ IsStableDielectric(b))
                   => /\ Score(a) < Score(b)
                      /\ selected[1] # a

StockValues == {0, 1, 5, 10, 1000, 1000000}

\* C9: raising the stock of a candidate, all else fixed, never lowers its
\* score, and the stock term is at most 100 points.
C9_ScoreMonotoneInStock ==
    \A c \in Elems(candidates) :
        \A s1, s2 \in StockValues :
            LET lo == [c EXCEPT !.stock = s1]
                hi == [c EXCEPT !.stock = s2]
            IN  /\ s1 <= s2 => Score(lo) <= Score(hi)
                /\ StockTerm(hi) <= 100000
                /\ StockTerm(hi) >= 0

\* Two ranked candidates that differ in stock only, the larger stock
\* selected.
C9_Witness ==
    /\ Resolved
    /\ \E a, b \in Elems(candidates_to_rank) :
           /\ a.stock < b.stock
           /\ [a EXCEPT !.stock = 0, !.lcsc_part = 0]
                  = [b EXCEPT !.stock = 0, !.lcsc_part = 0]
           /\ selected[1] = b

(***************************************************************************)
(* Properties of generate_plan and _search_item.                           *)
(***************************************************************************)
\* The lines whose task is waiting for the answer of a remote search.
InSearch == {i \in Lines : task_pc[i] \in {"mpn_search", "value_search"}}

\* The lines whose task holds a permit: inside the `async with` block, or
\* handed a permit by release() and not yet resumed.
PermitHolders == InSearch \cup semaphore.done

\* C10: generate_plan never has more than max_concurrent lines inside the
\* remote-search step at the same time.  The permits out are exactly those
\* of the lines inside the `async with` block (in the first or the second
\* search attempt) or just handed one, so a line keeps its permit across
\* both attempts and a line that left the block on any path has given it
\* back; when generate_plan returns every permit is free.
C10_SearchesBoundedByPermits ==
    plan_pc # "idle" =>
        /\ Cardinality(InSearch) <= max_concurrent
        /\ semaphore.value >= 0
        /\ semaphore.value + Cardinality(PermitHolders) = max_concurrent
        /\ plan_pc = "returned" => semaphore.value = max_concurrent

\* Every permit is out, one line is in its second search attempt, another
\* waits for a permit, and a third has left the block.
C10_Witness ==
    /\ plan_pc = "gather"
    /\ max_concurrent >= 1
    /\ Cardinality(InSearch) = max_concurrent
    /\ \E i, j, k \in Lines :
           /\ task_pc[i] = "value_search"
           /\ searches[i] = <<"mpn", "value">>
           /\ task_pc[j] = "waiting"
           /\ j \notin semaphore.done
           /\ task_pc[k] = "done"

\* generate_plan has returned its plan.
Returned == plan_pc = "returned"

\* C11: the plan generate_plan returns has exactly one item per BOM line,
\* and its i-th item is the item of the i-th BOM line, whatever the order
\* in which the line tasks finished.
C11_PlanInBomOrder ==
    Returned =>
        /\ Len(plan[1].items) = Len(bom)
        /\ \A i \in Lines : plan[1].items[i].bom_item = bom[i]

\* A plan returned after a later line finished before an earlier one, as
\* the calls of on_progress show.
C11_Witness ==
    /\ Returned
    /\ \E a, b \in 1..Len(progress) : a < b /\ progress[a][1] > progress[b][1]

\* Every answer the adapter gave line i was an exception.
AllAttemptsRaised(i) ==
    /\ answers[i] # <<>>
    /\ \A k \in 1..Len(answers[i]) : answers[i][k].raised

\* The last answer the adapter gave line i.
LastAnswer(i) == answers[i][Len(answers[i])]

\* What _search_item retains for line i from the result list `results`.
RetainedFor(i, results) ==
    RetainedTable[PartIdsOf(results), BomIndex(i), vendors_filter, max_vendors]

\* C12: a failing search never makes generate_plan raise, and at return a
\* line all of whose searches raised has no candidates and an error, while
\* every line whose last search returned results has the candidates retained
\* from its own results.
C12_SearchFailureIsolated ==
    /\ plan_pc = "raised" => on_progress = "raises"
    /\ Returned =>
           \A i \in Lines :
               /\ AllAttemptsRaised(i) =>
                      /\ plan[1].items[i].candidates = <<>>
                      /\ search_error[i] # <<>>
               /\ ~LastAnswer(i).raised /\ LastAnswer(i).results # <<>> =>
                      plan[1].items[i].candidates
                          = RetainedFor(i, LastAnswer(i).results)

\* A returned plan in which the MPN search and the value query of one line
\* both raised and another line has candidates.
C12_Witness ==
    /\ Returned
    /\ \E i, j \in Lines :
           /\ i # j
           /\ Len(answers[i]) = 2
           /\ AllAttemptsRaised(i)
           /\ plan[1].items[i].candidates = <<>>
           /\ plan[1].items[j].candidates # <<>>

\* C13: an exception raised while one line is processed, here by the progress
\* callback, is turned into an outcome of that line: generate_plan does not
\* raise, and the line whose processing failed still has its plan item.
C13_LineExceptionBecomesOutcome ==
    /\ plan_pc # "raised"
    /\ \A i \in Lines : task_pc[i] = "failed" => plan_items[i] # <<>>

\* The lines on_progress has been called for, in the order of the calls.
ProgressLines == [k \in 1..Len(progress) |-> progress[k][1]]

\* C14: on_progress is called at most once for a line, and only for a line
\* whose search, filtering and ranking are over and whose permit is back; at
\* return a callable on_progress has been called exactly once for every
\* line, and nothing is called when on_progress is not callable.
C14_ProgressOncePerFinishedLine ==
    /\ \A k \in 1..Len(progress) :
           /\ ProgressLines[k] \in Lines
           /\ task_pc[ProgressLines[k]] \in {"done", "failed"}
           /\ ProgressLines[k] \notin PermitHolders
    /\ \A a, b \in 1..Len(progress) : a # b => ProgressLines[a] # ProgressLines[b]
    /\ Returned /\ callable(on_progress) =>
           \A i \in Lines : \E k \in 1..Len(progress) : ProgressLines[k] = i
    /\ ~callable(on_progress) => progress = <<>>

\* Two lines have reported progress, one of them after a fallback search,
\* while a third line is still searching.
C14_Witness ==
    /\ Len(progress) = 2
    /\ \E i \in Lines : Len(searches[i]) = 2 /\ \E k \in 1..2 : ProgressLines[k] = i
    /\ InSearch # {}

LinesWithResults ==
    {i \in Lines : /\ answers[i] # <<>>
                   /\ ~LastAnswer(i).raised
                   /\ LastAnswer(i).results # <<>>}

\* The candidates the returned plan holds for line i.
PlanCandidates(i) == plan[1].items[i].candidates

\* filter_candidates for every list of results the searches return and every
\* footprint of the BOM lines.
PackageFilteredTable ==
    [ids \in {PartIdsOf(r) : r \in SearchResponses}, b \in 1..Len(BomItems) |->
        filter_candidates([k \in 1..Len(ids) |-> Parts[ids[k]]], BomItems[b].footprint)]

\* The results of line i after filter_candidates.
PackageFiltered(i) ==
    PackageFilteredTable[PartIdsOf(LastAnswer(i).results), BomIndex(i)]

\* _matches_vendor_filter for every part and every vendors_filter.
VendorMatchTable ==
    [id \in PartIds, f \in VendorFilters |-> _matches_vendor_filter(Parts[id], f)]

\* C16 as stated: with a non-empty vendors_filter every candidate in the
\* returned plan is from a distributor whose name contains an entry of the
\* filter.
C16_RetainedMatchVendorFilter ==
    Returned /\ vendors_filter # <<>> =>
        \A i \in Lines : \A k \in 1..Len(PlanCandidates(i)) :
            VendorMatchTable[PlanCandidates(i)[k].id, vendors_filter]

\* C16, amended: when at least one package-filtered result of a line is from
\* a requested vendor, every candidate retained for the line is; when none
\* is, or the filter is empty, the vendor filter excludes nothing and the
\* line keeps the best-ranked of all its package-filtered results.
C16_VendorFilterWithFallback ==
    Returned =>
        \A i \in LinesWithResults :
            LET Wanted(p) == VendorMatchTable[p.id, vendors_filter]
                wanted == SelectSeq(PackageFiltered(i), Wanted)
            IN  /\ wanted # <<>> =>
                       /\ PlanCandidates(i) = Take(SortedByRank(wanted), max_vendors)
                       /\ \A k \in 1..Len(PlanCandidates(i)) : Wanted(PlanCandidates(i)[k])
                /\ wanted = <<>> \/ vendors_filter = <<>> =>
                       PlanCandidates(i)
                           = Take(SortedByRank(PackageFiltered(i)), max_vendors)

\* A returned plan made with a vendors filter in which one line kept only
\* the requested vendor's part out of a mixed result list, and another line,
\* none of whose results is from a requested vendor, kept them all the same.
C16_Witness ==
    /\ Returned
    /\ vendors_filter # <<>>
    /\ \E i, j \in LinesWithResults :
           /\ PlanCandidates(i) # <<>>
           /\ \A k \in 1..Len(PlanCandidates(i)) :
                  VendorMatchTable[PlanCandidates(i)[k].id, vendors_filter]
           /\ \E k \in 1..Len(PackageFiltered(i)) :
                  ~VendorMatchTable[PackageFiltered(i)[k].id, vendors_filter]
           /\ PlanCandidates(j) # <<>>
           /\ \A k \in 1..Len(PlanCandidates(j)) :
                  ~VendorMatchTable[PlanCandidates(j)[k].id, vendors_filter]

\* eia_from_footprint for the footprint of every BOM line.
EiaTable == [b \in 1..Len(BomItems) |-> eia_from_footprint(BomItems[b].footprint)]

\* The EIA code of the footprint of line i.
LineEia(i) == EiaTable[BomIndex(i)]

\* package_matches_eia for the effective package of every part and the EIA
\* code of every BOM line.
RightSizeTable ==
    [b \in 1..Len(BomItems), id \in PartIds |->
        package_matches_eia(_effective_package(Parts[id]), EiaTable[b])]

\* The effective package of part p matches the EIA code of line i.
RightSize(i, p) == RightSizeTable[BomIndex(i), p.id]

\* C17 as stated: for a line whose footprint has an EIA code,
\* filter_candidates returns no candidate whose effective package fails the
\* match against the code.
C17_NoWrongSizePassedOn ==
    Returned =>
        \A i \in LinesWithResults :
            LineEia(i) # <<>> =>
                \A k \in 1..Len(PackageFiltered(i)) : RightSize(i, PackageFiltered(i)[k])

\* C17, amended: for a line whose footprint has an EIA code, the candidates
\* filter_candidates returns either all match the code or none does, and
\* the list is never empty; for a footprint without type filter it is the
\* matching results when there are any and all the results otherwise.
C17_PackageFilterWithFallback ==
    Returned =>
        \A i \in LinesWithResults :
            LET out == PackageFiltered(i)
                res == LastAnswer(i).results
                Right(p) == RightSize(i, p)
            IN  LineEia(i) # <<>> =>
                    /\ out # <<>>
                    /\ \A k \in 1..Len(out) : \E m \in 1..Len(res) : out[k] = res[m]
                    /\ (\E k \in 1..Len(out) : Right(out[k]))
                           => \A k \in 1..Len(out) : Right(out[k])
                    /\ ~StartsWith(bom[i].footprint, <<"F","u","s","e","_">>) =>
                           out = IF SelectSeq(res, Right) # <<>>
                                 THEN SelectSeq(res, Right)
                                 ELSE res

\* A returned plan in which the package filter removed a wrong-size result
\* of one line and passed on the wrong-size results of another, none of
\* whose results has the right size.
C17_Witness ==
    /\ Returned
    /\ \E i, j \in LinesWithResults :
           /\ LineEia(i) # <<>>
           /\ \A k \in 1..Len(PackageFiltered(i)) : RightSize(i, PackageFiltered(i)[k])
           /\ Len(PackageFiltered(i)) < Len(LastAnswer(i).results)
           /\ LineEia(j) # <<>>
           /\ \E k \in 1..Len(PlanCandidates(j)) : ~RightSize(j, PlanCandidates(j)[k])

\* The linkage fields that candidate k of items[i] of the returned plan
\* carries: those last written on its Part object.
TagsOf(i, k) == linkage[PartObject(i, PlanCandidates(i)[k].id)]

C18_FreshPartsTaggedWithOwnLine ==
    (Returned /\ adapter = "fresh") =>
        \A i \in Lines : \A k \in 1..Len(PlanCandidates(i)) :
            TagsOf(i, k) = Linkage(bom[i])

\* A returned plan in which two lines retained the same part.
C18_SamePartOnTwoLines ==
    /\ Returned
    /\ \E i, j \in Lines :
           /\ i # j
           /\ \E k \in 1..Len(PlanCandidates(i)) : \E m \in 1..Len(PlanCandidates(j)) :
                  PlanCandidates(i)[k].id = PlanCandidates(j)[m].id

\* The call of _search_item has returned candidates.
ItemReturned == item_return # <<>> /\ item_args[1].results # <<>>

\* The candidates the call returned.
ItemCandidates == item_return[1].candidates

\* The filtered set of the call: the results after the package and type
\* filter and the vendor filter, the vendor filter kept only when it leaves
\* something.
ItemFiltered ==
    LET a == item_args[1]
        Wanted(p) == _matches_vendor_filter(p, a.vendors_filter)
        by_package == filter_candidates(a.results, a.bom_item.footprint)
        by_vendor == SelectSeq(by_package, Wanted)
    IN  IF by_vendor = <<>> THEN by_package ELSE by_vendor

\* part.quantity_in_stock or 0
StockOf(part) == IF part.quantity_in_stock = <<>> THEN 0 ELSE part.quantity_in_stock[1]

\* Part a ranks strictly before part b: in stock before out of stock, then
\* the larger stock, then the lower price, an unknown price after every
\* known one.
RanksBefore(a, b) ==
    \/ StockOf(a) > 0 /\ StockOf(b) = 0
    \/ /\ (StockOf(a) > 0) = (StockOf(b) > 0)
       /\ StockOf(a) > StockOf(b)
    \/ /\ StockOf(a) = StockOf(b)
       /\ a.unit_price # <<>>
       /\ b.unit_price = <<>> \/ a.unit_price[1] < b.unit_price[1]

\* C19: the candidates _search_item retains are at most max_vendors, as many
\* as the filtered set allows, in ranking order (in stock first, then larger
\* stock, then lower price, unknown price last), all from the filtered set,
\* and no part of the filtered set that was left out ranks before a retained
\* one: the cut comes after the ranking.
C19_RetainedAreTopRanked ==
    ItemReturned =>
        LET cands == ItemCandidates
            n == item_args[1].max_vendors
            kept == {cands[k] : k \in 1..Len(cands)}
            all == {ItemFiltered[k] : k \in 1..Len(ItemFiltered)}
        IN  /\ Len(cands) <= n
            /\ Len(cands) = Min2(n, Len(ItemFiltered))
            /\ Cardinality(kept) = Len(cands)
            /\ kept \subseteq all
            /\ \A k, m \in 1..Len(cands) : k < m => ~RanksBefore(cands[m], cands[k])
            /\ \A p \in all \ kept : \A q \in kept : ~RanksBefore(p, q)

\* A returned call whose filtered set is larger than max_vendors and begins
\* with a part that a later part of the set ranks before, on price alone.
C19_Witness ==
    /\ ItemReturned
    /\ Len(ItemFiltered) > item_args[1].max_vendors
    /\ Len(ItemCandidates) = item_args[1].max_vendors
    /\ \E k \in 2..Len(ItemFiltered) :
           /\ RanksBefore(ItemFiltered[k], ItemFiltered[1])
           /\ StockOf(ItemFiltered[k]) = StockOf(ItemFiltered[1])
           /\ ItemFiltered[1] \notin {ItemCandidates[j] : j \in 1..Len(ItemCandidates)}
    /\ Len(ItemFiltered) < Len(item_args[1].results)

\* _search_item has returned in the task of line i.
SearchItemDone(i) == task_pc[i] \in {"done", "failed"}

\* Answer k of line i brought no parts: it raised or returned an empty list.
NoParts(i, k) == answers[i][k].raised \/ answers[i][k].results = <<>>

\* Line i has an explicit part number (`if bom_item_part_number:`).
HasPartNumber(i) == bom[i].part_number # <<>>

\* C20 as stated: whenever the first search of a line brings no parts, the
\* line gets exactly one more search, with the other query source (the value
\* query after a part-number search, the part number after a value query),
\* and a fallback that brings parts leaves the line without error.
C20_RetryOnceWithAlternateSource ==
    \A i \in Lines :
        (SearchItemDone(i) /\ NoParts(i, 1)) =>
            /\ Len(searches[i]) = 2
            /\ searches[i][2] # searches[i][1]
            /\ ~NoParts(i, 2) => search_error[i] = <<>>

\* C20 as the code has it: a line with a part number is searched by part
\* number first and, when that brings no parts, exactly once more by the
\* value query, and a value query that brings parts leaves the line without
\* error; a line without part number is searched by the value query alone,
\* never a second time.
C20_ValueQueryIsTheOnlyFallback ==
    \A i \in Lines :
        /\ Len(searches[i]) <= 2
        /\ Len(answers[i]) <= Len(searches[i])
        /\ searches[i] # <<>> =>
               searches[i][1] = (IF HasPartNumber(i) THEN "mpn" ELSE "value")
        /\ Len(searches[i]) = 2 =>
               /\ searches[i][2] = "value"
               /\ NoParts(i, 1)
        /\ SearchItemDone(i) =>
               /\ Len(answers[i]) = Len(searches[i])
               /\ (HasPartNumber(i) /\ NoParts(i, 1)) => Len(searches[i]) = 2
               /\ ~HasPartNumber(i) => searches[i] = <<"value">>
               /\ ~NoParts(i, Len(answers[i])) => search_error[i] = <<>>

\* A line with a part number whose part-number search raised and whose value
\* query then brought parts, finished without error, next to a line without
\* part number whose only search, the value query, brought nothing.
C20_Witness ==
    \E i, j \in Lines :
        /\ SearchItemDone(i) /\ HasPartNumber(i)
        /\ searches[i] = <<"mpn", "value">>
        /\ answers[i][1].raised
        /\ ~NoParts(i, 2)
        /\ search_error[i] = <<>>
        /\ SearchItemDone(j) /\ ~HasPartNumber(j)
        /\ searches[j] = <<"value">>
        /\ NoParts(j, 1)

\* The package stage of resolve_part has run on a line whose footprint has
\* an EIA code: it passed candidates on or ended the call with its error.
PackageStageDone ==
    /\ EiaCode # <<>>
    /\ \/ pc = "pin_count"
       \/ pc = "done" /\ error # <<>> /\ error[1].kind \in {"PackageMismatch", "NoPackageInfo"}

ItemPackageFiltered ==
    filter_candidates(item_args[1].results, item_args[1].bom_item.footprint)

\* The footprint of the call is a fuse pad, the one footprint with a type
\* filter.
ItemIsFuse == StartsWith(item_args[1].bom_item.footprint, <<"F","u","s","e","_">>)

\* The EIA code of the footprint of the call.
ItemEia == eia_from_footprint(item_args[1].bom_item.footprint)

\* Part p is not of a type denied for the footprint of the call.
ItemRightType(p) ==
    ItemIsFuse =>
        ~\E bad \in _FOOTPRINT_CATEGORY_DENY : StartsWith(Upper(p.part_number), bad)

\* Part p is not a ferrite bead offered for a fuse pad.
ItemNotBead(p) == ItemIsFuse => ~_mpn_is_ferrite_bead(p.part_number)

\* The effective package of part p matches the EIA code of the call, if any.
ItemRightSize(p) ==
    ItemEia # <<>> => package_matches_eia(_effective_package(p), ItemEia)

FirstIndex(c) == SetMin({k \in 1..Len(candidates) : candidates[k] = c})

\* C23: the candidate resolve_part selects is one of those that survived all
\* filter stages, none of the survivors has a higher score, of the survivors
\* of that score it is the one that comes first in the input list, and the
\* survivors are in input order.
C23_SelectsFirstOfMaxScore ==
    Resolved =>
        LET Survives(c) == c \in Elems(candidates_to_rank)
        IN  /\ Survives(selected[1])
            /\ \A c \in Elems(candidates_to_rank) :
                   /\ Score(c) <= Score(selected[1])
                   /\ Score(c) = Score(selected[1])
                          => FirstIndex(selected[1]) <= FirstIndex(c)
            /\ candidates_to_rank = SelectSeq(candidates, Survives)

\* A resolved call with two different survivors of the maximum score, the
\* selected one before the other in the input.
C23_Witness ==
    /\ Resolved
    /\ \E c \in Elems(candidates_to_rank) :
           /\ c # selected[1]
           /\ Score(c) = Score(selected[1])
           /\ FirstIndex(selected[1]) < FirstIndex(c)

\* C24: the stock stage applies the configured minimum: run with
\* --min-stock N, a candidate passes the stage iff its stock is at least N,
\* and the out-of-stock error names N as the amount needed.
C24_StockStageUsesOption ==
    LET Enough(c) == c.stock >= min_stock
    IN  /\ pc = "category" => in_stock = SelectSeq(candidates, Enough)
        /\ (pc = "done" /\ error # <<>> /\ error[1].kind = "OutOfStock") =>
               /\ SelectSeq(candidates, Enough) = <<>>
               /\ error[1].need = min_stock

(***************************************************************************)
(* C25                                                                     *)
(***************************************************************************)
\* Number of places where the literal p occurs in s.
OccurrencesOf(s, p) ==
    Cardinality({i \in 1..(Len(s) - Len(p) + 1) : MatchAt(s, i, p)})

\* str.endswith(p)
EndsWith(s, p) == MatchAt(s, Len(s) - Len(p) + 1, p)

QueryEia == eia_from_footprint(query_args[1].footprint)

QueryBase == _sanitize_query(query_args[1].value)

\* The rule of build_search_query that applies to the pair.
QueryRule ==
    LET v == query_args[1].value
        f == query_args[1].footprint
    IN  IF StartsWith(f, <<"L","_">>) /\ Contains(v, <<"@">>) THEN "ferrite"
        ELSE IF \E k \in 1..Len(_CONNECTOR_PREFIXES) :
                    StartsWith(f, _CONNECTOR_PREFIXES[k])
             THEN "connector"
        ELSE IF StartsWith(f, <<"F","u","s","e","_">>) THEN "fuse"
        ELSE "default"

\* C25: build_search_query appends the footprint's EIA code at most once,
\* not at all when the sanitized value already contains the code, and
\* exactly once, at the end, in the fuse and default rules when the value
\* does not contain it.  The connector rule, which takes its text from the
\* footprint or from the value alone, never ends with an appended code.
C25_EiaAppendedAtMostOnce ==
    (query_str # <<>> /\ QueryEia # <<>>) =>
        LET q == query_str[1]
            b == QueryBase
            e == QueryEia
            added == OccurrencesOf(q, e) - OccurrencesOf(b, e)
        IN  /\ QueryRule # "connector" => added \in {0, 1}
            /\ QueryRule = "connector" =>
                   (EndsWith(q, <<" ">> \o e) => EndsWith(b, <<" ">> \o e))
            /\ (QueryRule # "connector" /\ Contains(b, e)) => added = 0
            /\ (QueryRule \in {"fuse", "default"} /\ ~Contains(b, e)) =>
                   /\ added = 1
                   /\ EndsWith(q, <<" ">> \o e)

\* A value that already names the package of its footprint: the query is
\* the sanitized value, nothing appended.
C25_Witness ==
    /\ query_str # <<>>
    /\ QueryEia # <<>>
    /\ QueryRule = "default"
    /\ Contains(QueryBase, QueryEia)
    /\ query_str[1] = QueryBase

(***************************************************************************)
(* C26                                                                     *)
(***************************************************************************)
\* C26: for every (value, footprint) pair the JLCPCB client's builder and
\* the shared builder return the same query text.
C26_BuildersAgree ==
    (query_str # <<>> /\ client_query # <<>>) => client_query = query_str

\* Both builders have answered for a bare resistor value, which gets its
\* unit and the package code of its footprint.
C26_Witness ==
    /\ query_str # <<>>
    /\ client_query # <<>>
    /\ QueryRule = "default"
    /\ StartsWith(query_args[1].footprint, <<"R","_">>)
    /\ client_query[1] = QueryBase \o <<"o","h","m">> \o <<" ">> \o QueryEia

(***************************************************************************)
(* C27                                                                     *)
(***************************************************************************)
\* C27: _search_item returns either a non-empty candidate list with error
\* None, or an empty candidate list with a non-empty error text.
C27_CandidatesOrReason ==
    item_return # <<>> =>
        LET r == item_return[1]
        IN  \/ r.candidates # <<>> /\ r.error = <<>>
            \/ r.candidates = <<>> /\ r.error # <<>> /\ r.error[1] # <<>>

(***************************************************************************)
(* C28                                                                     *)
(***************************************************************************)
\* C28 as stated: at most two searches per line, the part number first, the
\* value query alone on a line without part number and second only after a
\* part-number search that brought nothing, and no query text sent twice.
C28_NoQuerySentTwice ==
    item_return # <<>> =>
        /\ Len(item_searches) <= 2
        /\ \A j, k \in 1..Len(item_searches) :
               j # k => item_searches[j] # item_searches[k]

\* C28 as the code has it: a line without part number gets exactly one
\* search, the value query; a line with one gets the part-number search
\* first and the value query second exactly when the first raised or
\* returned nothing; neither search is sent a second time.  The two texts
\* are equal when the part number is what the value query comes to.
C28_EachSearchSentOnce ==
    item_return # <<>> =>
        LET a == item_args[1]
            value_query == build_search_query(a.bom_item.value,
                                              a.bom_item.footprint)
        IN  /\ Len(item_searches) \in {1, 2}
            /\ a.bom_item.part_number = <<>> => item_searches = <<value_query>>
            /\ a.bom_item.part_number # <<>> =>
                   /\ item_searches[1] = a.bom_item.part_number
                   /\ Len(item_searches) = 2 <=> a.mpn \in {"raised", "empty"}
                   /\ Len(item_searches) = 2 => item_searches[2] = value_query

\* A part-number search that raised, followed by the value query, whose
\* text differs from the part number.
C28_Witness ==
    /\ item_return # <<>>
    /\ item_args[1].mpn = "raised"
    /\ Len(item_searches) = 2
    /\ item_searches[1] = item_args[1].bom_item.part_number
    /\ item_searches[2] # item_searches[1]
    /\ item_return[1].candidates # <<>>

(***************************************************************************)
(* C29                                                                     *)
(***************************************************************************)
\* generate_plan has returned, every line's task has finished, and every
\* permit of the semaphore is free.
PlanReturnedAllFree ==
    /\ plan_pc = "returned"
    /\ \A i \in Lines : task_pc[i] = "done"
    /\ semaphore.value = max_concurrent
    /\ semaphore.waiters = <<>>

\* C29: whatever the BOM and max_concurrent, when every search eventually
\* returns or raises, generate_plan eventually returns with every task
\* finished and every permit free.
C29_PlanEventuallyReturns == <>PlanReturnedAllFree

(***************************************************************************)
(* C30                                                                     *)
(***************************************************************************)
\* Row k holds what the result for request k says: the part and no error,
\* or the error of the result (the default text when it has none).
RowHoldsResult(k) ==
    LET row == failed_rows[k]
        result == research_results[k]
    IN  IF result.success /\ result.jlcpcb_part_number # <<>>
        THEN /\ row.selected # <<>>
             /\ row.selected[1].lcsc_part = result.jlcpcb_part_number[1]
             /\ row.error = <<>>
        ELSE row.error =
                 <<IF result.error # <<>> THEN result.error[1]
                   ELSE <<"A","I"," ","r","e","s","e","a","r","c","h"," ","c","o","u","l","d"," ","n","o","t"," ","f","i","n","d"," ","s","u","i","t","a","b","l","e"," ","p","a","r","t">>>>

\* C30: once the AI research pass is over, every failed row has been
\* written to exactly once and holds the result of its own request, also
\* when two failed rows have the same comment.
C30_EachRowHoldsItsOwnResult ==
    research_pc = "returned" =>
        \A k \in 1..Len(failed_rows) :
            /\ updates[k] = 1
            /\ k <= Len(research_results)
            /\ RowHoldsResult(k)

=============================================================================
